---------------------------- MODULE Spec2Model ----------------------------
(***************************************************************************)
(* A model of the SEIR repository: the restriction-section parsers         *)
(* (SEIR/parser/config_file_parser.py, restrictions_section_parser.py)     *)
(* and the SEIR model engine (SEIR/seir.py).                               *)
(*                                                                         *)
(* Floats are fixed-point integers: the float x is the integer x * One,    *)
(* products and quotients are truncated back to that grid (Mul, Div).      *)
(* Times are whole days.                                                   *)
(***************************************************************************)
EXTENDS Integers, Sequences, FiniteSets, TLC

(***************************************************************************)
(* Bounds of the model.                                                    *)
(***************************************************************************)
\* the longest list of sections of a config file
MaxSections == 2
\* the last day a restriction window or a query may name
MaxDay == 4

(***************************************************************************)
(* Fixed-point floats.                                                     *)
(***************************************************************************)
\* the float 1.0
One == 64

Mul(a, b) == (a * b) \div One

Div(a, b) == (a * One) \div b

\* an ndarray holds its values: the entries of a sequence computed once
NpArray(xs) == xs \o << >>

\* a float or an N x N array of floats, as numpy hands it around
Scalar(x) == [kind |-> "scalar", v |-> x]

Matrix(m) == [kind |-> "matrix", v |-> m]

\* np.ones((n, n))
NpOnes(n) == [i \in 1..n |-> [j \in 1..n |-> One]]

\* np.multiply with numpy's broadcasting of a scalar over a matrix
NpMultiply(a, b) ==
    IF a.kind = "scalar" /\ b.kind = "scalar" THEN Scalar(Mul(a.v, b.v))
    ELSE IF a.kind = "scalar"
    THEN Matrix([i \in DOMAIN b.v |-> [j \in DOMAIN b.v[i] |-> Mul(a.v, b.v[i][j])]])
    ELSE IF b.kind = "scalar"
    THEN Matrix([i \in DOMAIN a.v |-> [j \in DOMAIN a.v[i] |-> Mul(a.v[i][j], b.v)]])
    ELSE Matrix([i \in DOMAIN a.v |-> [j \in DOMAIN a.v[i] |-> Mul(a.v[i][j], b.v[i][j])]])

\* equality of two numpy values, kind first
SameValue(a, b) == a.kind = b.kind /\ a.v = b.v

(***************************************************************************)
(* The config file: the compartments of [model] and the sections.          *)
(* A name is the sequence of its characters, a section name the sequence   *)
(* of its space-separated words.                                           *)
(***************************************************************************)
\* the compartments of the [model] section
AllCompartments == << <<"A">>, <<"B", "C">> >>

\* list.index: the position of x in the list, 0 when a ValueError is raised
ListIndex(list, x) ==
    IF \E k \in 1..Len(list) : list[k] = x
    THEN CHOOSE k \in 1..Len(list) : list[k] = x /\ \A l \in 1..(k - 1) : list[l] # x
    ELSE 0

\* iterating a Python string yields its characters, each a string
StrIter(name) == [k \in 1..Len(name) |-> <<name[k]>>]

\* sec.lower().startswith('restriction') on the section name, a name being
\* its words in order
IsRestrictionSection(name) ==
    Len(name) > 0 /\ name[1] \in {"restriction", "Restriction", "restrictions"}

\* " ".join(section_name.split(' ')[1:])
SectionTitle(name) == IF Len(name) = 0 THEN << >> ELSE Tail(name)

\* the info dictionary of a section
SectionInfo(section) ==
    [begins |-> section.begins, ends |-> section.ends, title |-> SectionTitle(section.name)]

\* float(inf_modifier_str) succeeds
IsFloatString(modstr) == modstr.form = "float"

\* the rows of inf_modifier_str.strip().split('\n'), each split at ':'
ModifierRows(modstr) ==
    IF modstr.form = "lines" THEN modstr.lines
    ELSE IF modstr.form = "file" THEN << [parts |-> 2] >>
    ELSE << [parts |-> 1] >>


(***************************************************************************)
(* Compartment references of a matrix-definition row.  A reference is the  *)
(* text of one part of the row: a compartment name, 'all', or a bracketed  *)
(* list of names.                                                          *)
(***************************************************************************)
\* restrictions_section_parser._parse_compartments: the list returned
\* (ok = FALSE when it raises)
ParseCompartments(ref, all_compartments) ==
    IF ref.kind = "name" /\ ListIndex(all_compartments, ref.names[1]) # 0
    THEN [ok |-> TRUE, items |-> <<ref.names[1]>>]
    ELSE IF ref.kind = "all" THEN [ok |-> TRUE, items |-> all_compartments]
    ELSE IF ref.kind = "list" /\ \A k \in 1..Len(ref.names) :
                                    ListIndex(all_compartments, ref.names[k]) # 0
    THEN [ok |-> TRUE, items |-> ref.names]
    ELSE [ok |-> FALSE, items |-> << >>]

\* config_file_parser._parse_compartments: a single compartment is returned
\* as the string itself, which the caller then iterates character by character
CfpParseCompartments(ref, all_compartments) ==
    IF ref.kind = "name" /\ ListIndex(all_compartments, ref.names[1]) # 0
    THEN [ok |-> TRUE, items |-> StrIter(ref.names[1])]
    ELSE ParseCompartments(ref, all_compartments)

\* [all_compartments.index(c) for c in compartments]; ok = FALSE on ValueError
CompartmentIndexes(items, all_compartments) ==
    [ok |-> \A k \in 1..Len(items) : ListIndex(all_compartments, items[k]) # 0,
     idxs |-> {ListIndex(all_compartments, items[k]) : k \in 1..Len(items)}]

\* modifier_matrix[idx_i, idx_j] *= modifier: numpy applies the update once
\* to every index pair named, however often it is named
ScaleEntries(m, pairs, modifier) ==
    [i \in DOMAIN m |-> [j \in DOMAIN m[i] |->
        IF <<i, j>> \in pairs THEN Mul(m[i][j], modifier) ELSE m[i][j]]]

\* _parse_infectivity_modifier_matrix_definition_single_line: the index pairs
\* product(c1, c2) + product(c2, c1) and the modifier
SingleLine(row, all_compartments) ==
    IF row.parts # 3 THEN [ok |-> FALSE, pairs |-> {}, modifier |-> 0]
    ELSE
    LET c1 == ParseCompartments(row.c1, all_compartments)
        c2 == ParseCompartments(row.c2, all_compartments)
        i1 == CompartmentIndexes(c1.items, all_compartments)
        i2 == CompartmentIndexes(c2.items, all_compartments)
    IN  [ok |-> c1.ok /\ c2.ok /\ i1.ok /\ i2.ok,
         pairs |-> (i1.idxs \X i2.idxs) \cup (i2.idxs \X i1.idxs),
         modifier |-> row.factor]

\* _parse_infectivity_modifier_matrix_definition_string: every row scales the
\* one modifier matrix, starting from np.ones
RECURSIVE MatrixDefinition(_, _, _)
MatrixDefinition(rows, all_compartments, m) ==
    IF rows = << >> THEN [ok |-> TRUE, matrix |-> m]
    ELSE LET line == SingleLine(Head(rows), all_compartments)
         IN  IF ~line.ok THEN [ok |-> FALSE, matrix |-> m]
             ELSE MatrixDefinition(Tail(rows), all_compartments,
                                   ScaleEntries(m, line.pairs, line.modifier))

\* _get_infectivity_modifier_from_file: the matrix of the file, checked for
\* its shape
ModifierFromFile(modstr, n) ==
    IF modstr.exists /\ Len(modstr.matrix) = n
                     /\ \A i \in 1..Len(modstr.matrix) : Len(modstr.matrix[i]) = n
    THEN [ok |-> TRUE, matrix |-> modstr.matrix]
    ELSE [ok |-> FALSE, matrix |-> << >>]

\* "if not inf_modifier": the float conversion failed, or gave a falsy float
NotAFloat(modstr) == ~IsFloatString(modstr) \/ modstr.val = 0

\* restrictions_section_parser._parse_restriction_section: the closure
\* (day_begins, day_ends, inf_modifier) and the info dictionary
ParseRestrictionSection(section, all_compartments) ==
    LET modstr == section.modifier
        asFile == ModifierFromFile(modstr, Len(all_compartments))
        asRows == MatrixDefinition(ModifierRows(modstr), all_compartments,
                                   NpOnes(Len(all_compartments)))
        ok == IF ~NotAFloat(modstr) THEN TRUE
              ELSE IF modstr.form = "file" THEN asFile.ok ELSE asRows.ok
        inf_modifier ==
              IF ~NotAFloat(modstr) THEN Scalar(modstr.val)
              ELSE IF modstr.form = "file" THEN Matrix(asFile.matrix)
              ELSE Matrix(asRows.matrix)
    IN  [ok |-> ok,
         fun |-> [day_begins |-> section.begins, day_ends |-> section.ends,
                  inf_modifier |-> inf_modifier],
         info |-> SectionInfo(section)]

\* (mutant) the closure returning 0.0 outside its window
RestrictionsFunctionZeroOutside(fun, t) ==
    IF fun.day_begins <= t /\ t <= fun.day_ends THEN fun.inf_modifier ELSE Scalar(0)

\* the closure restrictions_function(t) of one section
RestrictionsFunction(fun, t) ==
    IF fun.day_begins <= t /\ t <= fun.day_ends THEN fun.inf_modifier ELSE Scalar(One)

\* the transposed index pairs
Transposed(pairs) == {<<p[2], p[1]>> : p \in pairs}

\* config_file_parser._parse_restriction_section, one row of a matrix
\* definition: a fresh np.ones matrix scaled at product(c1, c2) and then at
\* the transposed pairs
CfpRowMatrix(row, all_compartments) ==
    IF row.parts # 3 THEN [ok |-> FALSE, matrix |-> << >>]
    ELSE
    LET c1 == CfpParseCompartments(row.c1, all_compartments)
        c2 == CfpParseCompartments(row.c2, all_compartments)
        i1 == CompartmentIndexes(c1.items, all_compartments)
        i2 == CompartmentIndexes(c2.items, all_compartments)
        pairs == i1.idxs \X i2.idxs
        ones == NpOnes(Len(all_compartments))
    IN  [ok |-> c1.ok /\ c2.ok /\ i1.ok /\ i2.ok,
         matrix |-> ScaleEntries(ScaleEntries(ones, pairs, row.factor),
                                 Transposed(pairs), row.factor)]

\* the loop over the rows: every row rebinds modifier_matrix and
\* restrictions_function, so the function of the last row is the one returned
RECURSIVE CfpMatrixDefinition(_, _, _)
CfpMatrixDefinition(rows, all_compartments, m) ==
    IF rows = << >> THEN [ok |-> TRUE, matrix |-> m]
    ELSE LET r == CfpRowMatrix(Head(rows), all_compartments)
         IN  IF ~r.ok THEN [ok |-> FALSE, matrix |-> m]
             ELSE CfpMatrixDefinition(Tail(rows), all_compartments, r.matrix)

\* config_file_parser._parse_restriction_section
CfpParseRestrictionSection(section, all_compartments) ==
    LET modstr == section.modifier
        asRows == CfpMatrixDefinition(ModifierRows(modstr), all_compartments, << >>)
    IN  [ok |-> IsFloatString(modstr) \/ asRows.ok,
         fun |-> [day_begins |-> section.begins, day_ends |-> section.ends,
                  inf_modifier |-> IF IsFloatString(modstr) THEN Scalar(modstr.val)
                                   ELSE Matrix(asRows.matrix)],
         info |-> SectionInfo(section)]

\* the sections of the file whose name starts with 'restriction'
RECURSIVE RestrictionSections(_)
RestrictionSections(sections) ==
    IF sections = << >> THEN << >>
    ELSE IF IsRestrictionSection(Head(sections).name)
         THEN <<Head(sections)>> \o RestrictionSections(Tail(sections))
         ELSE RestrictionSections(Tail(sections))

\* the function objects a parser returns
NoFunction == [kind |-> "None", restr_funs |-> << >>]

SingleFunction(fun) == [kind |-> "single", restr_funs |-> <<fun>>]

CombinedFunction(funs) == [kind |-> "combined", restr_funs |-> funs]

\* (mutant) the closure returning the value of the last function alone
RestrictionsLastOnly(restr_funs, t, modif) ==
    IF restr_funs = << >> THEN modif
    ELSE RestrictionsFunction(restr_funs[Len(restr_funs)], t)

\* the closure restrictions(t): modif = 1.0, then np.multiply by every fun(t)
RECURSIVE Restrictions(_, _, _)
Restrictions(restr_funs, t, modif) ==
    IF restr_funs = << >> THEN modif
    ELSE Restrictions(Tail(restr_funs), t,
                      NpMultiply(modif, RestrictionsFunction(Head(restr_funs), t)))

\* calling a function object at time t
CallRestrictions(f, t) ==
    IF f.kind = "single" THEN RestrictionsFunction(f.restr_funs[1], t)
    ELSE Restrictions(f.restr_funs, t, Scalar(One))

\* the values a parser's info result takes: None, one dictionary, a list
NoInfo == [kind |-> "None", v |-> << >>]

DictInfo(info) == [kind |-> "dict", v |-> <<info>>]

ListInfo(infos) == [kind |-> "list", v |-> infos]

\* restrictions_section_parser.parse_restriction_sections
ParseRestrictionSections(sections, all_compartments) ==
    LET rsecs == RestrictionSections(sections)
        parsed == [k \in 1..Len(rsecs) |-> ParseRestrictionSection(rsecs[k], all_compartments)]
        restr_funs == [k \in 1..Len(rsecs) |-> parsed[k].fun]
        restr_info == [k \in 1..Len(rsecs) |-> parsed[k].info]
    IN  IF \E k \in 1..Len(rsecs) : ~parsed[k].ok
        THEN [status |-> "error", fun |-> NoFunction, info |-> NoInfo]
        ELSE IF Len(rsecs) = 0
        THEN [status |-> "ok", fun |-> NoFunction, info |-> NoInfo]
        ELSE IF Len(rsecs) = 1
        THEN [status |-> "ok", fun |-> SingleFunction(restr_funs[1]),
              info |-> DictInfo(restr_info[1])]
        ELSE [status |-> "ok", fun |-> CombinedFunction(restr_funs),
              info |-> ListInfo(restr_info)]

\* config_file_parser._parse_restriction_sections, as parse_config_ini calls
\* it: the info returned is the loop variable, the dictionary of the last section
CfpParseRestrictionSections(sections, all_compartments) ==
    LET rsecs == RestrictionSections(sections)
        parsed == [k \in 1..Len(rsecs) |->
                       CfpParseRestrictionSection(rsecs[k], all_compartments)]
        restr_funs == [k \in 1..Len(rsecs) |-> parsed[k].fun]
        info == parsed[Len(rsecs)].info
    IN  IF \E k \in 1..Len(rsecs) : ~parsed[k].ok
        THEN [status |-> "error", fun |-> NoFunction, info |-> NoInfo]
        ELSE IF Len(rsecs) = 0
        THEN [status |-> "ok", fun |-> NoFunction, info |-> NoInfo]
        ELSE IF Len(rsecs) = 1
        THEN [status |-> "ok", fun |-> SingleFunction(restr_funs[1]), info |-> DictInfo(info)]
        ELSE [status |-> "ok", fun |-> CombinedFunction(restr_funs), info |-> DictInfo(info)]

(***************************************************************************)
(* The config files the parsers are run on.                                *)
(***************************************************************************)
\* references to compartments, as a row of a matrix definition writes them
RefA == [kind |-> "name", names |-> <<AllCompartments[1]>>]

RefBC == [kind |-> "name", names |-> <<AllCompartments[2]>>]

RefAll == [kind |-> "all", names |-> << >>]

RefList == [kind |-> "list", names |-> AllCompartments]

Row(c1, c2, factor) == [parts |-> 3, c1 |-> c1, c2 |-> c2, factor |-> factor]

\* the values of the key 'infectivity modifier': floats (0.5 and 0), a file
\* holding a matrix, and matrix definitions of one and of two rows, naming
\* single compartments, bracketed lists and 'all' 
ModifierStrings ==
    { [form |-> "float", val |-> One \div 2],
      [form |-> "float", val |-> 0],
      [form |-> "file", exists |-> TRUE,
       matrix |-> << <<One \div 2, One>>, <<One, One \div 4>> >>],
      [form |-> "lines", lines |-> << Row(RefA, RefAll, One \div 2) >>],
      [form |-> "lines", lines |-> << Row(RefList, RefList, One \div 4) >>],
      [form |-> "lines", lines |-> << Row(RefBC, RefA, One \div 2) >>],
      [form |-> "lines", lines |-> << Row(RefAll, RefAll, One \div 2),
                                      Row(RefList, RefA, One \div 4) >>] }

\* the windows [day-begins, day-ends] with their section names: the first two
\* overlap on day 2, the third is disjoint from both
Windows ==
    { [name |-> <<"restriction", "everyone-begin-careful">>, begins |-> 1, ends |-> 2],
      [name |-> <<"Restriction", "school", "closure">>, begins |-> 2, ends |-> MaxDay - 1],
      [name |-> <<"restriction", "lockdown">>, begins |-> MaxDay, ends |-> MaxDay] }

\* a section that is no restriction section
OtherSection ==
    [name |-> <<"simulation">>, begins |-> 0, ends |-> 0,
     modifier |-> [form |-> "float", val |-> One]]

Sections ==
    { [name |-> w.name, begins |-> w.begins, ends |-> w.ends, modifier |-> m] :
        w \in Windows, m \in ModifierStrings } \cup {OtherSection}

\* the files: every list of at most MaxSections sections
Configs == UNION { [1..n -> Sections] : n \in 0..MaxSections }

\* the times the restriction functions are queried at
QueryTimes == 0..(MaxDay + 1)

(***************************************************************************)
(* The SEIR model (SEIR/seir.py).  A state vector Y is the sequence of the *)
(* four blocks S, E, I, R, each of num_compartments floats.                *)
(***************************************************************************)
\* np.ones(n) * x
Vec(n, x) == [i \in 1..n |-> x]

\* block b (1 = S, 2 = E, 3 = I, 4 = R) of a state vector: a slice or np.split
Block(Y, b, n) == [i \in 1..n |-> Y[(b - 1) * n + i]]

RECURSIVE SumSeq(_)
SumSeq(xs) == IF xs = << >> THEN 0 ELSE Head(xs) + SumSeq(Tail(xs))

\* a constructor or setter argument: a number, or a list / array of numbers
Number(x) == [kind |-> "scalar", v |-> x]

List(xs) == [kind |-> "list", v |-> xs]

\* the assertion of _fix_size passes
FixSizeOk(x, n) == x.kind = "scalar" \/ Len(x.v) = n

\* SEIR._fix_size
FixSize(x, n) == IF x.kind = "scalar" THEN Vec(n, x.v) ELSE x.v

\* (mutant) the contact matrix used as it is given, not symmetrized
ComputeInfectivityMatrixUnsymmetrized(infectious_period, initial_R0, population, contacts_matrix) ==
    LET n == Len(population)
        pc == SumSeq([j \in 1..n |-> SumSeq([i \in 1..n |-> Mul(population[i], contacts_matrix[i][j])])])
        normalization == [j \in 1..n |->
            Div(Mul(Mul(Div(One, infectious_period[j]), initial_R0), SumSeq(population)), pc)]
    IN  [i \in 1..n |-> [j \in 1..n |-> Mul(normalization[j], contacts_matrix[i][j])]]

\* (mutant) the infectivity matrix without the division by the contacts of the
\* population
ComputeInfectivityMatrixUnnormalized(infectious_period, initial_R0, population, contacts_matrix) ==
    LET n == Len(population)
    IN  [i \in 1..n |-> [j \in 1..n |->
            Mul(Mul(Mul(Div(One, infectious_period[j]), initial_R0), One \div 2),
                contacts_matrix[i][j] + contacts_matrix[j][i])]]

\* SEIR._compute_infectivity_matrix: normalization is a vector over the
\* compartments, which numpy broadcasts along the last axis (the columns) of
\* the symmetrized contact matrix
ComputeInfectivityMatrix(infectious_period, initial_R0, population, contacts_matrix) ==
    LET n == Len(population)
        pc == SumSeq([j \in 1..n |-> SumSeq([i \in 1..n |-> Mul(population[i], contacts_matrix[i][j])])])
        normalization == [j \in 1..n |->
            Div(Mul(Mul(Div(One, infectious_period[j]), initial_R0), SumSeq(population)), pc)]
    IN  [i \in 1..n |-> [j \in 1..n |->
            Mul(Mul(normalization[j], One \div 2), contacts_matrix[i][j] + contacts_matrix[j][i])]]

\* (mutant) the scratch matrix allocated without copying the values
AllocateInfMatrixEmpty(infectivity_matrix) ==
    [i \in DOMAIN infectivity_matrix |-> [j \in DOMAIN infectivity_matrix[i] |-> 0]]

\* self.infectivity_matrix.copy()
AllocateInfMatrix(infectivity_matrix) == infectivity_matrix

\* None, for the optional arguments and for Y0
None == << >>

NoSolution == [set |-> FALSE, t0 |-> 0, t_end |-> 0, ys |-> << >>]

NoT0 == [set |-> FALSE, v |-> 0]

\* the compartments of the instance: a single compartment 'All' if none are given
Compartments(kwargs) ==
    IF kwargs.compartments # None THEN kwargs.compartments ELSE << <<"A", "l", "l">> >>

\* the assertions of SEIR.__init__ pass
InitOk(kwargs) ==
    LET n == Len(Compartments(kwargs))
    IN  /\ FixSizeOk(kwargs.incubation_period, n)
        /\ FixSizeOk(kwargs.infectious_period, n)
        /\ FixSizeOk(kwargs.hospitalization_probability, n)
        /\ FixSizeOk(kwargs.icu_probability, n)
        /\ FixSizeOk(kwargs.death_probability, n)
        /\ (kwargs.population.kind = "scalar" => n = 1)
        /\ FixSizeOk(kwargs.population, n)
        /\ kwargs.contacts_matrix # None =>
              /\ Len(kwargs.contacts_matrix) = n
              /\ \A i \in 1..n : Len(kwargs.contacts_matrix[i]) = n

\* SEIR.__init__: the instance after construction.  contacts_matrix keeps the
\* matrix the infectivity matrix was computed from (the argument, or the
\* all-ones default); t0 is an attribute only once simulate has set it.
SEIRInit(kwargs) ==
    LET compartments == Compartments(kwargs)
        n == Len(compartments)
        infectious_period == FixSize(kwargs.infectious_period, n)
        population == FixSize(kwargs.population, n)
        contacts_matrix == IF kwargs.contacts_matrix # None THEN kwargs.contacts_matrix
                           ELSE NpOnes(n)
        infectivity_matrix == ComputeInfectivityMatrix(infectious_period, kwargs.initial_R0,
                                                       population, contacts_matrix)
    IN  [ compartments |-> compartments,
          num_compartments |-> n,
          incubation_period |-> FixSize(kwargs.incubation_period, n),
          infectious_period |-> infectious_period,
          initial_R0 |-> kwargs.initial_R0,
          hospitalization_probability |-> FixSize(kwargs.hospitalization_probability, n),
          hospitalization_duration |-> kwargs.hospitalization_duration,
          hospitalization_lag_from_onset |-> kwargs.hospitalization_lag_from_onset,
          icu_probability |-> FixSize(kwargs.icu_probability, n),
          icu_duration |-> kwargs.icu_duration,
          icu_lag_from_onset |-> kwargs.icu_lag_from_onset,
          death_probability |-> FixSize(kwargs.death_probability, n),
          death_lag_from_onset |-> kwargs.death_lag_from_onset,
          population |-> population,
          contacts_matrix |-> contacts_matrix,
          infectivity_matrix |-> infectivity_matrix,
          restrictions_function |-> kwargs.restrictions_function,
          imported_cases_function |-> kwargs.imported_cases_function,
          inf_matrix |-> AllocateInfMatrix(infectivity_matrix),
          Y0 |-> None,
          t0 |-> NoT0,
          SEIR_solution |-> NoSolution ]

\* an imported-cases function: the three vectors it returns at time t
NoImports == [kind |-> "None", DS |-> 0, DE |-> 0, DI |-> 0]

ImportedCases(f, t, n) == <<Vec(n, f.DS), Vec(n, f.DE), Vec(n, f.DI)>>

\* the matrix __call__ computes with: the scratch matrix, rewritten first when
\* there is a restrictions function
EffectiveMatrix(self, t) ==
    IF self.restrictions_function.kind # "None"
    THEN NpMultiply(CallRestrictions(self.restrictions_function, t),
                    Matrix(self.infectivity_matrix)).v
    ELSE self.inf_matrix

\* self._inf_matrix @ Ia
MatVec(m, x) == [i \in DOMAIN m |-> SumSeq([j \in DOMAIN x |-> Mul(m[i][j], x[j])])]

\* (mutant) dE/dt without the outflow to the infectious block
dE_dt_NoOutflow(dS_dt, Ea, incubation_period) == [i \in DOMAIN Ea |-> -dS_dt[i]]

\* dE_dt[:] = -dS_dt - np.divide(Ea, self.incubation_period)
dE_dt(dS_dt, Ea, incubation_period) ==
    [i \in DOMAIN Ea |-> -dS_dt[i] - Div(Ea[i], incubation_period[i])]

\* SEIR.__call__: the derivative returned for (t, Y)
Call(self, t, Y) ==
    LET n == self.num_compartments
        Sa == Block(Y, 1, n)
        Ea == Block(Y, 2, n)
        Ia == Block(Y, 3, n)
        force == MatVec(EffectiveMatrix(self, t), Ia)
        dS == [i \in 1..n |-> Mul(-Div(Sa[i], self.population[i]), force[i])]
        dE == dE_dt(dS, Ea, self.incubation_period)
        dI == [i \in 1..n |-> Div(Ea[i], self.incubation_period[i])
                               - Div(Ia[i], self.infectious_period[i])]
        dR == [i \in 1..n |-> Div(Ia[i], self.infectious_period[i])]
        D == ImportedCases(self.imported_cases_function, t, n)
    IN  IF self.imported_cases_function.kind # "None"
        THEN [i \in 1..n |-> dS[i] + D[1][i]] \o [i \in 1..n |-> dE[i] + D[2][i]]
             \o [i \in 1..n |-> dI[i] + D[3][i]] \o dR
        ELSE dS \o dE \o dI \o dR

\* (mutant) __call__ writing the restricted matrix over self.infectivity_matrix
AfterCallCanonicalWritten(self, t) ==
    [self EXCEPT !.infectivity_matrix = EffectiveMatrix(self, t),
                 !.inf_matrix = EffectiveMatrix(self, t)]

\* seir/model.py, SEIR.__call__: the older module names restrictions_function
\* without self, a name the module does not define, so that the call raises
\* NameError when the instance has a restrictions function; without one it
\* computes with self.infectivity_matrix
ModelPyCall(self, t, Y) ==
    IF self.restrictions_function.kind # "None" THEN [err |-> TRUE, res |-> << >>]
    ELSE [err |-> FALSE,
          res |-> Call([self EXCEPT !.inf_matrix = self.infectivity_matrix], t, Y)]

\* the instance after __call__(t, Y): only the scratch matrix is written
AfterCall(self, t) == [self EXCEPT !.inf_matrix = EffectiveMatrix(self, t)]

\* numpy's broadcasting of two one-dimensional arrays: equal lengths, or one
\* of them of length 1
BroadcastOk(a, b) == Len(a) = Len(b) \/ Len(a) = 1 \/ Len(b) = 1

BroadcastLen(a, b) == IF Len(a) >= Len(b) THEN Len(a) ELSE Len(b)

At(a, k) == IF Len(a) = 1 THEN a[1] ELSE a[k]

\* np.multiply(a, b) and a - b on one-dimensional arrays
VecMultiply(a, b) == [k \in 1..BroadcastLen(a, b) |-> Mul(At(a, k), At(b, k))]

VecSubtract(a, b) == [k \in 1..BroadcastLen(a, b) |-> At(a, k) - At(b, k)]

\* set_initial_state: the exposed (or infected) array of one argument, and
\* whether the call gets past it.  With probabilities numpy multiplies the
\* argument with the population; without, a number is spread evenly over the
\* compartments and a list must have one entry per compartment.
InitialVector(self, x, probabilities) ==
    LET n == self.num_compartments
        arg == IF x.kind = "scalar" THEN <<x.v>> ELSE x.v
    IN  IF probabilities
        THEN IF BroadcastOk(arg, self.population)
             THEN [ok |-> TRUE, v |-> VecMultiply(arg, self.population)]
             ELSE [ok |-> FALSE, v |-> << >>]
        ELSE IF x.kind = "scalar"
             THEN [ok |-> TRUE, v |-> [i \in 1..n |-> Vec(n, x.v)[i] \div n]]
             ELSE IF Len(x.v) = n THEN [ok |-> TRUE, v |-> x.v]
             ELSE [ok |-> FALSE, v |-> << >>]

\* (mutant) set_initial_state taking only the exposed from the susceptible
SetInitialStateInfectedKept(self, population_exposed, population_infected, probabilities) ==
    LET n == self.num_compartments
        exposed == InitialVector(self, population_exposed, probabilities)
        infected == InitialVector(self, population_infected, probabilities)
        ok == /\ exposed.ok /\ infected.ok
              /\ BroadcastOk(self.population, exposed.v)
              /\ BroadcastOk(VecSubtract(self.population, exposed.v), infected.v)
    IN  IF ~ok THEN [err |-> TRUE, self |-> self]
        ELSE [err |-> FALSE,
              self |-> [self EXCEPT !.Y0 = VecSubtract(self.population, exposed.v)
                                           \o exposed.v \o infected.v \o Vec(n, 0)]]

\* SEIR.set_initial_state: the error flag and the instance after the call
SetInitialState(self, population_exposed, population_infected, probabilities) ==
    LET n == self.num_compartments
        exposed == InitialVector(self, population_exposed, probabilities)
        infected == InitialVector(self, population_infected, probabilities)
        ok == /\ exposed.ok /\ infected.ok
              /\ BroadcastOk(self.population, exposed.v)
              /\ BroadcastOk(VecSubtract(self.population, exposed.v), infected.v)
        susceptible == VecSubtract(VecSubtract(self.population, exposed.v), infected.v)
        removed == Vec(n, 0)
    IN  IF ~ok THEN [err |-> TRUE, self |-> self]
        ELSE [err |-> FALSE,
              self |-> [self EXCEPT !.Y0 = susceptible \o exposed.v \o infected.v \o removed]]

\* the integrator (scipy's solve_ivp, modelled by Euler steps of one day):
\* the states at t, t + 1, ..., t_end, each step one call of the model
RECURSIVE Integrate(_, _, _, _)
Integrate(self, t, t_end, y) ==
    IF t >= t_end THEN <<y>>
    ELSE LET dy == Call(self, t, y)
         IN  <<y>> \o Integrate(self, t + 1, t_end, [k \in DOMAIN y |-> y[k] + dy[k]])

\* solution.sol(t) for t >= t0: the stored state inside [t0, t_end], the last
\* step continued linearly beyond t_end
Sol(solution, t) ==
    LET ys == solution.ys
        last == Len(ys)
    IN  IF t <= solution.t_end THEN ys[t - solution.t0 + 1]
        ELSE [k \in DOMAIN ys[last] |->
                 ys[last][k] + (t - solution.t_end) * (ys[last][k] - ys[last - 1][k])]

\* (mutant) simulate recording t0 before it checks the initial state
SimulateT0First(self, max_simulation_time, t0) ==
    IF self.Y0 = None
    THEN [err |-> TRUE, self |-> [self EXCEPT !.t0 = [set |-> TRUE, v |-> t0]]]
    ELSE [err |-> FALSE,
          self |-> [self EXCEPT
                      !.t0 = [set |-> TRUE, v |-> t0],
                      !.SEIR_solution = [set |-> TRUE, t0 |-> t0, t_end |-> max_simulation_time,
                                         ys |-> Integrate(self, t0, max_simulation_time, self.Y0)],
                      !.inf_matrix = EffectiveMatrix(self, max_simulation_time - 1)]]

\* SEIR.simulate: the error flag and the instance after the call.  The closure
\* stored keeps the solution and t0 of this call; it reads self.Y0 when called.
Simulate(self, max_simulation_time, t0) ==
    IF self.Y0 = None THEN [err |-> TRUE, self |-> self]
    ELSE [err |-> FALSE,
          self |-> [self EXCEPT
                      !.t0 = [set |-> TRUE, v |-> t0],
                      !.SEIR_solution = [set |-> TRUE, t0 |-> t0, t_end |-> max_simulation_time,
                                         ys |-> Integrate(self, t0, max_simulation_time, self.Y0)],
                      !.inf_matrix = EffectiveMatrix(self, max_simulation_time - 1)]]

\* the entries of a sequence that satisfy / do not satisfy time >= t0, in order
RECURSIVE PosTimes(_, _)
PosTimes(time, t0) ==
    IF time = << >> THEN << >>
    ELSE IF Head(time) >= t0 THEN <<Head(time)>> \o PosTimes(Tail(time), t0)
         ELSE PosTimes(Tail(time), t0)

\* the closure SEIR_solution(time) of simulate: one row per query time
SEIRSolution(self, time) ==
    LET solution == self.SEIR_solution
        pos == PosTimes(time, solution.t0)
        possol == [k \in 1..Len(pos) |-> NpArray(Sol(solution, pos[k]))]
        negsol == [k \in 1..(Len(time) - Len(pos)) |-> self.Y0]
    IN  IF Len(pos) = Len(time) THEN possol
        ELSE IF Len(pos) = 0 THEN negsol
        ELSE negsol \o possol

(***************************************************************************)
(* evaluate_solution.                                                      *)
(***************************************************************************)
\* a cell of the table that may be masked: a float, or NaN
Cell(x) == [nan |-> FALSE, v |-> x]

NaN == [nan |-> TRUE, v |-> 0]

\* np.sum over the compartments of a row of cells: NaN when any cell is
CellSum(cells) ==
    IF \E i \in DOMAIN cells : cells[i].nan THEN NaN
    ELSE Cell(SumSeq([i \in DOMAIN cells |-> cells[i].v]))

SeqMin(xs) == CHOOSE x \in {xs[k] : k \in DOMAIN xs} : \A k \in DOMAIN xs : x <= xs[k]

SeqMax(xs) == CHOOSE x \in {xs[k] : k \in DOMAIN xs} : \A k \in DOMAIN xs : x >= xs[k]

\* np.arange(start, stop, step) for step > 0, the stop given doubled (stop2 =
\* 2 * stop) so that time + dt / 2 stays a whole number
RECURSIVE NpArange(_, _, _)
NpArange(start, stop2, step) ==
    IF 2 * start < stop2 THEN <<start>> \o NpArange(start + step, stop2, step) ELSE << >>

\* int(round(a / b)) for a >= 0, b > 0: Python rounds a tie to the even integer
RoundHalfEven(a, b) ==
    LET q == a \div b
        r == a % b
    IN  IF 2 * r < b THEN q
        ELSE IF 2 * r > b THEN q + 1
        ELSE IF q % 2 = 0 THEN q ELSE q + 1

\* np.convolve(a, np.ones(m), mode='same') for Len(a) >= m >= 1: the middle
\* Len(a) entries of the full convolution, starting at its entry (m - 1) // 2
ConvolveSame(a, m) ==
    NpArray([k \in 1..Len(a) |->
        LET p == (k - 1) + ((m - 1) \div 2)
            lo == IF p - m + 1 > 0 THEN p - m + 1 ELSE 0
            hi == IF p < Len(a) - 1 THEN p ELSE Len(a) - 1
        IN  SumSeq([q \in 1..(hi - lo + 1) |-> Mul(a[lo + q], One)])])

\* scipy's cumtrapz(y, x=x, initial=0) along the rows
RECURSIVE CumTrapz(_, _, _)
CumTrapz(y, x, k) ==
    IF k = 1 THEN 0
    ELSE CumTrapz(y, x, k - 1) + ((x[k] - x[k - 1]) * (y[k] + y[k - 1])) \div 2

\* np.fabs(x - c).argmin(): the first index of the entry closest to c
Abs(x) == IF x < 0 THEN -x ELSE x

ArgMinDistance(x, c) ==
    CHOOSE k \in DOMAIN x :
        /\ \A l \in DOMAIN x : Abs(x[k] - c) <= Abs(x[l] - c)
        /\ \A l \in 1..(k - 1) : Abs(x[l] - c) > Abs(x[k] - c)

\* the indexes of the entries with time >= t0 (idx_pos) and time < t0 (idx_neg)
RECURSIVE IndexesWhere(_, _, _, _)
IndexesWhere(time, t0, k, positive) ==
    IF k > Len(time) THEN << >>
    ELSE IF (time[k] >= t0) = positive
         THEN <<k>> \o IndexesWhere(time, t0, k + 1, positive)
         ELSE IndexesWhere(time, t0, k + 1, positive)

\* the cumulative sum of infected people: Icumulative, one row per index of
\* idx_neg followed by one row per index of idx_pos
Icumulative(self, time, SEIR) ==
    LET n == self.num_compartments
        t0 == self.t0.v
        idx_pos == IndexesWhere(time, t0, 1, TRUE)
        idx_neg == IndexesWhere(time, t0, 1, FALSE)
        E0 == Block(self.Y0, 2, n)
        I0 == Block(self.Y0, 3, n)
        rate(k, i) == Div(Block(SEIR[k], 2, n)[i], self.incubation_period[i])
        Ipos_zero == NpArray([i \in 1..n |->
            ((time[idx_pos[1]] - 0)
               * (rate(idx_pos[1], i) + Div(E0[i], self.incubation_period[i]))) \div 2])
        E_pos == NpArray([i \in 1..n |-> NpArray([q \in 1..Len(idx_pos) |-> rate(idx_pos[q], i)])])
        time_pos == NpArray([q \in 1..Len(idx_pos) |-> time[idx_pos[q]]])
        Idiff_pos == [r \in 1..Len(idx_pos) |-> [i \in 1..n |->
            CumTrapz(E_pos[i], time_pos, r) + Ipos_zero[i]]]
        Idiff_neg == [r \in 1..Len(idx_neg) |-> [i \in 1..n |->
            Block(SEIR[idx_neg[r]], 3, n)[i] - I0[i]]]
        Idiff == IF Len(idx_neg) > 0 /\ Len(idx_pos) > 0 THEN Idiff_neg \o Idiff_pos
                 ELSE IF Len(idx_pos) > 0 THEN Idiff_pos ELSE Idiff_neg
    IN  [r \in 1..Len(Idiff) |-> NpArray([i \in 1..n |-> I0[i] + Idiff[r][i]])]

\* (mutant) the mask taking the boundary itself as well
MaskAtOrBefore(x, t, real_t0) == IF t <= real_t0 THEN NaN ELSE x

\* x[time < real_t0] = np.nan, for the entry x of time t
MaskBefore(x, t, real_t0) == IF t < real_t0 THEN NaN ELSE x

\* htime_beg / itime_beg: np.arange(time.min() - duration, time[0] + dt / 2, dt)
PaddedBeg(time, duration) ==
    LET dt == time[2] - time[1]
    IN  NpArange(SeqMin(time) - duration, 2 * time[1] + dt, dt)

\* htime_end / itime_end: np.arange(time[-1], time.max() + duration + dt / 2, dt)
PaddedEnd(time, duration) ==
    LET dt == time[2] - time[1]
    IN  NpArange(time[Len(time)], 2 * (SeqMax(time) + duration) + dt, dt)

\* htime / itime: np.concatenate([beg, time, end])
PaddedTime(time, duration) ==
    PaddedBeg(time, duration) \o time \o PaddedEnd(time, duration)

\* the active cases of hospital or ICU: the rate of new cases on the padded
\* time grid, convolved with a window of round(duration / dt) ones, masked
\* before t0 + lag + duration and cut back to the rows of the query times.
\* block is the block of the lagged state the rate is read from.
ActiveCases(self, time, probability, duration, lag, block, only_real_results) ==
    LET n == self.num_compartments
        dt == time[2] - time[1]
        time_beg == PaddedBeg(time, duration)
        ptime == PaddedTime(time, duration)
        lagged == NpArray(SEIRSolution(self, NpArray([k \in 1..Len(ptime) |-> ptime[k] - lag])))
        new_cases_rate == NpArray([i \in 1..n |-> NpArray([k \in 1..Len(ptime) |->
            Mul(probability[i], Div(Block(lagged[k], block, n)[i], self.incubation_period[i]))])])
        window == RoundHalfEven(duration, dt)
        active == NpArray([i \in 1..n |-> ConvolveSame(new_cases_rate[i], window)])
        real_t0 == self.t0.v + lag + duration
    IN  [r \in 1..Len(time) |-> NpArray([i \in 1..n |->
            IF only_real_results
            THEN MaskBefore(Cell(active[i][Len(time_beg) + r] * dt),
                            ptime[Len(time_beg) + r], real_t0)
            ELSE Cell(active[i][Len(time_beg) + r] * dt)])]

\* the total number of deaths: the running integral of the lagged rate, set
\* to zero at the query time closest to t0 + lag and masked before it
Deaths(self, time, only_real_results) ==
    LET n == self.num_compartments
        lag == self.death_lag_from_onset
        lagged == NpArray(SEIRSolution(self, NpArray([k \in 1..Len(time) |-> time[k] - lag])))
        rate == NpArray([i \in 1..n |-> NpArray([k \in 1..Len(time) |->
            Mul(self.death_probability[i],
                Div(Block(lagged[k], 2, n)[i], self.incubation_period[i]))])])
        deaths == NpArray([r \in 1..Len(time) |->
            NpArray([i \in 1..n |-> CumTrapz(rate[i], time, r)])])
        deaths_t0 == self.t0.v + lag
        closest == ArgMinDistance(time, deaths_t0)
    IN  [r \in 1..Len(time) |-> NpArray([i \in 1..n |->
            IF only_real_results
            THEN MaskBefore(Cell(deaths[r][i] - deaths[closest][i]), time[r], deaths_t0)
            ELSE Cell(deaths[r][i])])]

\* (mutant) the column names with 'removed' ahead of 'infected (total)'
ColumnNamesRemovedFirst == <<"susceptible", "exposed", "infected (active)", "removed",
                             "infected (total)", "hospitalized (active)", "in ICU", "deaths">>

\* the column names: 'time', then for every quantity one column per
\* compartment and the column of the quantity itself
ColumnNames == <<"susceptible", "exposed", "infected (active)", "infected (total)",
                 "removed", "hospitalized (active)", "in ICU", "deaths">>

AllColumns(compartments) ==
    LET perQuantity(c) == [i \in 1..(Len(compartments) + 1) |->
            IF i <= Len(compartments) THEN <<ColumnNames[c], compartments[i]>>
            ELSE <<ColumnNames[c]>>]
        RECURSIVE chain(_)
        chain(c) == IF c > Len(ColumnNames) THEN << >> ELSE perQuantity(c) \o chain(c + 1)
    IN  << <<"time">> >> \o chain(1)

\* (mutant) evaluate_solution moving t0 to the first query time
AfterEvaluateT0Moved(self, time) == [self EXCEPT !.t0.v = time[1]]

\* the instance after evaluate_solution: no attribute is assigned, and the
\* arrays read from it (Y0, the parameters) are not written in place
AfterEvaluate(self, time) == self

\* SEIR.evaluate_solution: the error flag and the table returned
EvaluateSolution(self, time, only_real_results) ==
    LET n == self.num_compartments
        dt == time[2] - time[1]
        SEIR == NpArray(SEIRSolution(self, time))
        Icum == NpArray(Icumulative(self, time, SEIR))
        H == NpArray(ActiveCases(self, time, self.hospitalization_probability,
                                 self.hospitalization_duration,
                                 self.hospitalization_lag_from_onset, 2, only_real_results))
        ICU == NpArray(ActiveCases(self, time, self.icu_probability, self.icu_duration,
                                   self.icu_lag_from_onset, 3, only_real_results))
        deaths == NpArray(Deaths(self, time, only_real_results))
        raw(r, b) == Block(SEIR[r], b, n) \o <<SumSeq(Block(SEIR[r], b, n))>>
    IN  IF ~self.SEIR_solution.set THEN [err |-> TRUE, table |-> << >>]
        ELSE IF RoundHalfEven(self.hospitalization_duration, dt) = 0
                \/ RoundHalfEven(self.icu_duration, dt) = 0
        THEN [err |-> TRUE, table |-> << >>]
        ELSE [err |-> FALSE,
              table |-> [columns |-> AllColumns(self.compartments),
                         data |-> [r \in 1..Len(time) |->
                            <<time[r]>> \o raw(r, 1) \o raw(r, 2) \o raw(r, 3)
                            \o Icum[r] \o <<SumSeq(Icum[r])>> \o raw(r, 4)
                            \o H[r] \o <<CellSum(H[r])>>
                            \o ICU[r] \o <<CellSum(ICU[r])>>
                            \o deaths[r] \o <<CellSum(deaths[r])>>]]]

(***************************************************************************)
(* The configurations and the arguments of the calls.                      *)
(***************************************************************************)
\* the last day of a simulation
MaxSimulationTime == 3

\* restriction functions handed to the model, as the parsers build them
ScalarRestriction ==
    CfpParseRestrictionSections(
        << [name |-> <<"restriction", "lockdown">>, begins |-> 1, ends |-> 2,
            modifier |-> [form |-> "float", val |-> One \div 2]] >>, AllCompartments).fun

MatrixRestrictions ==
    ParseRestrictionSections(
        << [name |-> <<"restriction", "school", "closure">>, begins |-> 1, ends |-> 2,
            modifier |-> [form |-> "lines", lines |-> << Row(RefA, RefAll, One \div 2) >>]],
           [name |-> <<"restriction", "lockdown">>, begins |-> 2, ends |-> 3,
            modifier |-> [form |-> "float", val |-> One \div 2]] >>, AllCompartments).fun

\* imported-cases functions: one that moves a susceptible to the exposed, one
\* that adds an infectious person from outside
ShiftImports == [kind |-> "function", DS |-> -One, DE |-> One, DI |-> 0]

NetImports == [kind |-> "function", DS |-> 0, DE |-> 0, DI |-> One]

\* the keyword arguments the constructor is called with
KwargsGiven ==
        [ compartments : {None, AllCompartments},
          population : {Number(8 * One), Number(4 * One), List(<<8 * One, 4 * One>>)},
          incubation_period : {Number(2 * One), Number(0)},
          infectious_period : {Number(2 * One), List(<<4 * One>>), List(<<2 * One, 4 * One>>)},
          initial_R0 : {2 * One},
          hospitalization_probability : {Number(One \div 2)},
          hospitalization_duration : {3},
          hospitalization_lag_from_onset : {1},
          icu_probability : {Number(One \div 4)},
          icu_duration : {1},
          icu_lag_from_onset : {2},
          death_probability : {Number(One \div 4)},
          death_lag_from_onset : {1},
          contacts_matrix : {None, << <<2 * One>> >>, << <<One, 2 * One>>, <<0, One>> >>},
          restrictions_function : {NoFunction, ScalarRestriction, MatrixRestrictions},
          imported_cases_function : {NoImports, ShiftImports, NetImports} ]

\* the keyword arguments of the models constructed and run: the constructor
\* raises for those that fail InitOk, and the models run have an incubation
\* period to divide by
Kwargs ==
    { k \in KwargsGiven :
        /\ InitOk(k)
        /\ k.incubation_period = Number(2 * One)
        /\ k.population # Number(4 * One)
        /\ k.restrictions_function = MatrixRestrictions => k.compartments = AllCompartments
        /\ k.compartments = None => k.infectious_period = Number(2 * One)
        /\ k.compartments # None => k.population = List(<<8 * One, 4 * One>>)
        /\ k.restrictions_function # NoFunction =>
               k.contacts_matrix = None /\ k.imported_cases_function = NoImports
        /\ k.imported_cases_function # NoImports =>
               k.contacts_matrix = None /\ k.infectious_period = Number(2 * One) }

\* the arguments of set_initial_state: numbers of people, lists of them (one
\* of the right and one of a wrong length), fractions of the population (as a
\* number, as a list with an entry per compartment, as a list of one entry)
InitialStateArgs(n) ==
    { [population_exposed |-> Number(2 * One), population_infected |-> Number(One),
       probabilities |-> FALSE],
      [population_exposed |-> List(Vec(n, One)), population_infected |-> List(Vec(n, 2 * One)),
       probabilities |-> FALSE],
      [population_exposed |-> List(Vec(n + 1, One)), population_infected |-> Number(One),
       probabilities |-> FALSE],
      [population_exposed |-> Number(One \div 4), population_infected |-> List(Vec(n, One \div 8)),
       probabilities |-> TRUE],
      [population_exposed |-> List(<<One \div 4>>), population_infected |-> Number(One \div 8),
       probabilities |-> TRUE] }

\* the start times of a simulation
StartTimes == {-1, 0, 1}

\* the times the model is called at
CallTimes == {0, 2}

\* a state vector handed to __call__ that is no initial state
SampleY(self) ==
    LET n == self.num_compartments
    IN  [i \in 1..n |-> self.population[i] - 3 * One] \o Vec(n, One) \o Vec(n, 2 * One)
        \o Vec(n, 0)

\* the query times handed to the dense solution: every array of two of these
\* days, in any order
SolutionTimes == {-1, 1, MaxSimulationTime + 1}

QueryArrays == [1..2 -> SolutionTimes]

\* the query times handed to evaluate_solution: ascending and evenly spaced
EvaluationTimes ==
    { NpArange(-2, 2 * MaxSimulationTime, 1), NpArange(0, 2 * MaxSimulationTime + 1, 1),
      NpArange(0, 2 * MaxSimulationTime + 3, 2) }

(***************************************************************************)
(* parse_config_ini: the typing of the values of [model], [initial state]  *)
(* and [simulation].  A value is the sequence of its characters.           *)
(***************************************************************************)
Digits == {"0", "1", "2", "3", "4", "5", "6", "7", "8", "9"}

DigitValue(c) ==
    CASE c = "0" -> 0 [] c = "1" -> 1 [] c = "2" -> 2 [] c = "3" -> 3 [] c = "4" -> 4
      [] c = "5" -> 5 [] c = "6" -> 6 [] c = "7" -> 7 [] c = "8" -> 8 [] c = "9" -> 9

\* str.strip()
RECURSIVE LStrip(_)
LStrip(w) == IF w # << >> /\ Head(w) = " " THEN LStrip(Tail(w)) ELSE w

RECURSIVE RStrip(_)
RStrip(w) ==
    IF w # << >> /\ w[Len(w)] = " " THEN RStrip(SubSeq(w, 1, Len(w) - 1)) ELSE w

Strip(w) == RStrip(LStrip(w))

\* str.lower(), on the letters the values are written with
LowerChar(c) ==
    CASE c = "A" -> "a" [] c = "E" -> "e" [] c = "F" -> "f" [] c = "L" -> "l"
      [] c = "N" -> "n" [] c = "O" -> "o" [] c = "R" -> "r" [] c = "S" -> "s"
      [] c = "T" -> "t" [] c = "U" -> "u" [] c = "Y" -> "y" [] OTHER -> c

Lower(w) == [k \in 1..Len(w) |-> LowerChar(w[k])]

\* "," in value
HasComma(value) == \E k \in 1..Len(value) : value[k] = ","

\* value.split(",")
RECURSIVE SplitComma(_)
SplitComma(value) ==
    IF value = << >> THEN << << >> >>
    ELSE LET rest == SplitComma(Tail(value))
         IN  IF Head(value) = "," THEN << << >> >> \o rest
             ELSE << <<Head(value)>> \o rest[1] >> \o Tail(rest)

\* whether float(x) accepts the text: an unsigned decimal number, spaces
\* around it allowed (signs, exponents, inf and nan are not written here)
IsFloatText(x) ==
    LET w == Strip(x)
    IN  /\ \A k \in 1..Len(w) : w[k] \in Digits \cup {"."}
        /\ \E k \in 1..Len(w) : w[k] \in Digits
        /\ Cardinality({k \in 1..Len(w) : w[k] = "."}) <= 1

\* the digits of w read as a whole number
RECURSIVE DecimalValue(_)
DecimalValue(w) ==
    IF w = << >> THEN 0
    ELSE 10 * DecimalValue(SubSeq(w, 1, Len(w) - 1)) + DigitValue(w[Len(w)])

RECURSIVE TenTo(_)
TenTo(k) == IF k = 0 THEN 1 ELSE 10 * TenTo(k - 1)

\* float(x) of an accepted text
FloatOf(x) ==
    LET w == Strip(x)
        dot == IF \E k \in 1..Len(w) : w[k] = "."
               THEN CHOOSE k \in 1..Len(w) : w[k] = "." ELSE Len(w) + 1
        whole == SubSeq(w, 1, dot - 1)
        fraction == SubSeq(w, dot + 1, Len(w))
    IN  DecimalValue(whole) * One + (DecimalValue(fraction) * One) \div TenTo(Len(fraction))

\* the typed values of the returned dictionaries
PyFloat(x) == [type |-> "float", v |-> x]

PyFloatList(xs) == [type |-> "list of float", v |-> xs]

PyStrList(ws) == [type |-> "list of str", v |-> ws]

PyBool(b) == [type |-> "bool", v |-> b]

PyStr(w) == [type |-> "str", v |-> w]

Typed(val) == [ok |-> TRUE, val |-> val]

ValueError == [ok |-> FALSE, val |-> PyStr(<< >>)]

\* [float(x) for x in value.split(",")]
FloatList(value) ==
    LET parts == SplitComma(value)
    IN  IF \A k \in 1..Len(parts) : IsFloatText(parts[k])
        THEN Typed(PyFloatList([k \in 1..Len(parts) |-> FloatOf(parts[k])]))
        ELSE ValueError

\* the value of a key of [model]
TypeModelValue(key, value) ==
    IF HasComma(value)
    THEN IF key = "compartments"
         THEN LET parts == SplitComma(value)
              IN  Typed(PyStrList([k \in 1..Len(parts) |-> Strip(parts[k])]))
         ELSE FloatList(value)
    ELSE IF IsFloatText(value) THEN Typed(PyFloat(FloatOf(value))) ELSE ValueError

TrueWords == { <<"y", "e", "s">>, <<"y", "a", "u">>, <<"t", "r", "u", "e">> }

FalseWords == { <<"n", "o">>, <<"n", "a", "y">>, <<"f", "a", "l", "s", "e">> }

\* the value of a key of [initial state]
TypeInitialStateValue(key, value) ==
    IF HasComma(value) THEN FloatList(value)
    ELSE IF IsFloatText(value) THEN Typed(PyFloat(FloatOf(value)))
    ELSE IF Lower(value) \in TrueWords THEN Typed(PyBool(TRUE))
    ELSE IF Lower(value) \in FalseWords THEN Typed(PyBool(FALSE))
    ELSE ValueError

\* (mutant) [simulation] typed like [initial state]: no value kept as a string
TypeSimulationValueStrict(key, value) == TypeInitialStateValue(key, value)

\* the value of a key of [simulation]
TypeSimulationValue(key, value) ==
    IF HasComma(value) THEN FloatList(value)
    ELSE IF IsFloatText(value) THEN Typed(PyFloat(FloatOf(value)))
    ELSE IF Lower(value) \in TrueWords THEN Typed(PyBool(TRUE))
    ELSE IF Lower(value) \in FalseWords THEN Typed(PyBool(FALSE))
    ELSE Typed(PyStr(value))

\* d[key] = val on a dictionary kept as the sequence of its items
DictSet(d, key, val) ==
    IF \E k \in 1..Len(d) : d[k].key = key
    THEN [k \in 1..Len(d) |-> IF d[k].key = key THEN [key |-> key, val |-> val] ELSE d[k]]
    ELSE Append(d, [key |-> key, val |-> val])

HasKey(d, key) == \E k \in 1..Len(d) : d[k].key = key

DictGet(d, key) == d[CHOOSE k \in 1..Len(d) : d[k].key = key].val

\* the loop over config.items(section): the dictionary built, or the error
RECURSIVE TypeItems(_, _, _)
TypeItems(section, items, d) ==
    IF items = << >> THEN [ok |-> TRUE, d |-> d]
    ELSE LET key == Head(items).key
             value == Head(items).value
             t == CASE section = "model" -> TypeModelValue(key, value)
                    [] section = "initial state" -> TypeInitialStateValue(key, value)
                    [] section = "simulation" -> TypeSimulationValue(key, value)
         IN  IF t.ok THEN TypeItems(section, Tail(items), DictSet(d, key, t.val))
             ELSE [ok |-> FALSE, d |-> << >>]

\* parse_config_ini up to the restrictions: the three dictionaries
ParseConfigIni(file) ==
    LET model == TypeItems("model", file.model, << >>)
        kwargs == IF HasKey(model.d, "compartments") THEN model.d
                  ELSE DictSet(model.d, "compartments", PyStrList(<< <<"A", "l", "l">> >>))
        initial_state == TypeItems("initial state", file.initial_state, << >>)
        simulation == TypeItems("simulation", file.simulation, << >>)
    IN  IF model.ok /\ initial_state.ok /\ simulation.ok
        THEN [status |-> "ok", kwargs |-> kwargs, initial_state_kwargs |-> initial_state.d,
              simulation_kwargs |-> simulation.d]
        ELSE [status |-> "error", kwargs |-> << >>, initial_state_kwargs |-> << >>,
              simulation_kwargs |-> << >>]

\* the config files whose values are typed: the items of the three sections
Item(key, value) == [key |-> key, value |-> value]

ModelSections ==
    { compartments \o population \o << Item("initial_R0", <<"2", ".", "5">>) >> :
        compartments \in { << >>,
                           << Item("compartments", <<"A", ",", " ", "B", "C">>) >>,
                           << Item("compartments", <<"A", "l", "l">>) >> },
        population \in { << Item("population", <<"8", ",", "4">>) >>,
                         << Item("population", <<"1", "2">>) >> } }

InitialStateSections ==
    { << Item("probabilities", probabilities), Item("population_exposed", exposed) >> :
        probabilities \in { <<"y", "e", "s">>, <<"F", "a", "l", "s", "e">>, <<"N", "O">>,
                            <<"y", "a", "u">>, <<"m", "a", "y", "b", "e">> },
        exposed \in { <<"1">>, <<"1", ",", " ", "2", ".", "2", "5">>, <<"1", ",", "x">> } }

SimulationSections ==
    { << Item("max_simulation_time", <<"3">>), Item("method", method) >> :
        method \in { <<"R", "K", "4", "5">>, <<"T", "r", "u", "e">>, <<"0", ".", "5">> } }

ConfigFiles ==
    [model : ModelSections, initial_state : InitialStateSections,
     simulation : SimulationSections]

\* a config file of the two compartments A and BC that is typed without error
DefaultConfigFile ==
    [model |-> << Item("compartments", <<"A", ",", " ", "B", "C">>),
                  Item("population", <<"8", ",", "4">>),
                  Item("initial_R0", <<"2", ".", "5">>) >>,
     initial_state |-> << Item("probabilities", <<"N", "O">>),
                          Item("population_exposed", <<"1">>) >>,
     simulation |-> << Item("max_simulation_time", <<"3">>),
                       Item("method", <<"R", "K", "4", "5">>) >>]

(***************************************************************************)
(* Two instances in one process.  The attributes that hold numpy arrays    *)
(* are references into a memory of arrays: attributes of two instances     *)
(* that hold the same reference hold the same array object.                *)
(***************************************************************************)
\* the reference of an array only instance i holds, and of an array created
\* by the caller of the constructors
Own(i, attr) == <<i, attr>>

Caller(attr) == <<0, attr>>

\* _fix_size by reference: an ndarray argument is returned as it is, a number
\* gives a new array
FixSizeRef(i, attr, x) == IF x.kind = "list" THEN Caller(attr) ELSE Own(i, attr)

\* (mutant) one scratch matrix for every instance
InfMatrixRefShared(i) == Caller("_inf_matrix")

\* self._inf_matrix: the copy made by the constructor, a new array
InfMatrixRef(i) == Own(i, "_inf_matrix")

\* the references instance i holds after SEIR(**kwargs), the arrays among the
\* keyword arguments being ndarrays
Refs(i, kwargs) ==
    [ incubation_period |-> FixSizeRef(i, "incubation_period", kwargs.incubation_period),
      infectious_period |-> FixSizeRef(i, "infectious_period", kwargs.infectious_period),
      hospitalization_probability |->
          FixSizeRef(i, "hospitalization_probability", kwargs.hospitalization_probability),
      icu_probability |-> FixSizeRef(i, "icu_probability", kwargs.icu_probability),
      death_probability |-> FixSizeRef(i, "death_probability", kwargs.death_probability),
      population |-> FixSizeRef(i, "population", kwargs.population),
      infectivity_matrix |-> Own(i, "infectivity_matrix"),
      inf_matrix |-> InfMatrixRef(i),
      Y0 |-> Own(i, "Y0") ]

\* the instance i built from kwargs: its references, its other attributes and
\* the arguments of the __call__ it is in the middle of
NewInstance(i, kwargs) ==
    [ refs |-> Refs(i, kwargs),
      attrs |-> SEIRInit(kwargs),
      pending |-> << >> ]

\* the memory after two instances are built from the same keyword arguments
NewMemory(kwargs) ==
    LET built == SEIRInit(kwargs)
        refs == [i \in 1..2 |-> Refs(i, kwargs)]
        held == UNION { {refs[i].incubation_period, refs[i].infectious_period,
                         refs[i].hospitalization_probability, refs[i].icu_probability,
                         refs[i].death_probability, refs[i].population,
                         refs[i].infectivity_matrix, refs[i].inf_matrix, refs[i].Y0}
                        : i \in 1..2 }
    IN  [a \in held |->
            CASE a[2] = "incubation_period" -> built.incubation_period
              [] a[2] = "infectious_period" -> built.infectious_period
              [] a[2] = "hospitalization_probability" -> built.hospitalization_probability
              [] a[2] = "icu_probability" -> built.icu_probability
              [] a[2] = "death_probability" -> built.death_probability
              [] a[2] = "population" -> built.population
              [] a[2] = "infectivity_matrix" -> built.infectivity_matrix
              [] a[2] = "_inf_matrix" -> built.inf_matrix
              [] a[2] = "Y0" -> None]

\* the instance as its methods read it: every array attribute looked up in the
\* memory (Y0 is None until set_initial_state binds an array to it)
Deref(inst, mem) ==
    [inst.attrs EXCEPT
        !.incubation_period = mem[inst.refs.incubation_period],
        !.infectious_period = mem[inst.refs.infectious_period],
        !.hospitalization_probability = mem[inst.refs.hospitalization_probability],
        !.icu_probability = mem[inst.refs.icu_probability],
        !.death_probability = mem[inst.refs.death_probability],
        !.population = mem[inst.refs.population],
        !.infectivity_matrix = mem[inst.refs.infectivity_matrix],
        !.inf_matrix = mem[inst.refs.inf_matrix],
        !.Y0 = mem[inst.refs.Y0]]

\* the writes of a method to the arrays: self._inf_matrix[:, :] = ... writes
\* the scratch matrix in place, self.Y0 = ... binds a new array to the
\* attribute of the instance; no other array is written
StoreMemory(inst, mem, after) ==
    [a \in DOMAIN mem |->
        IF a = inst.refs.inf_matrix THEN after.inf_matrix
        ELSE IF a = inst.refs.Y0 THEN after.Y0
        ELSE mem[a]]

\* the attributes a method assigns: self.t0 and self.SEIR_solution
StoreInstance(inst, after) ==
    [inst EXCEPT !.attrs.t0 = after.t0, !.attrs.SEIR_solution = after.SEIR_solution]

\* __call__ up to the assignment of self._inf_matrix
CallWrite(inst, mem, t) ==
    [a \in DOMAIN mem |->
        IF a = inst.refs.inf_matrix THEN EffectiveMatrix(Deref(inst, mem), t) ELSE mem[a]]

\* __call__ after that assignment: the derivatives, with self._inf_matrix as
\* the memory holds it now
CallRead(inst, mem, t, Y) ==
    Call([Deref(inst, mem) EXCEPT !.restrictions_function = NoFunction], t, Y)

(***************************************************************************)
(* State.                                                                  *)
(***************************************************************************)
VARIABLES
    config,     \* the sections of the config file read
    cfp,        \* what config_file_parser.parse_config_ini returned for them
    rsp,        \* what restrictions_section_parser.parse_restriction_sections returned
    ini,        \* the [model], [initial state] and [simulation] sections of the file
    typed,      \* the three dictionaries parse_config_ini returned for them
    self,       \* the SEIR instance
    op,         \* the last method called on it
    err,        \* whether that call raised
    out,        \* what that call returned
    instances,  \* two SEIR instances of one process
    heap,       \* the arrays their attributes refer to
    alone       \* each of the two instances as it is when run alone

parserVars == <<config, cfp, rsp, ini, typed>>

modelVars == <<self, op, err, out>>

pairVars == <<instances, heap, alone>>

vars == <<config, cfp, rsp, ini, typed, self, op, err, out, instances, heap, alone>>

NotCalled == [status |-> "unset", fun |-> NoFunction, info |-> NoInfo]

\* the keyword arguments of a plain single-compartment model
DefaultKwargs ==
    CHOOSE k \in Kwargs :
        /\ k.compartments = None /\ k.contacts_matrix = None
        /\ k.infectious_period = Number(2 * One)
        /\ k.restrictions_function = NoFunction /\ k.imported_cases_function = NoImports

NotTyped == [status |-> "unset", kwargs |-> << >>, initial_state_kwargs |-> << >>,
             simulation_kwargs |-> << >>]

ParserInit ==
    /\ config \in Configs
    /\ cfp = NotCalled
    /\ rsp = NotCalled
    /\ ini = DefaultConfigFile
    /\ typed = NotTyped
    /\ self = SEIRInit(DefaultKwargs)
    /\ op = "__init__"
    /\ err = FALSE
    /\ out = << >>
    /\ instances = << >>
    /\ heap = << >>
    /\ alone = << >>

\* parse_config_ini(config_file): the three dictionaries, then the restrictions
\* function and info parsed with the compartments of [model]; an error in
\* either part and nothing is returned
parse_config_ini ==
    LET dicts == ParseConfigIni(ini)
        restrictions ==
            IF dicts.status = "ok"
            THEN CfpParseRestrictionSections(config, DictGet(dicts.kwargs, "compartments").v)
            ELSE [status |-> "error", fun |-> NoFunction, info |-> NoInfo]
    IN  /\ typed' = IF restrictions.status = "ok" THEN dicts
                     ELSE [NotTyped EXCEPT !.status = "error"]
        /\ cfp' = restrictions
        /\ UNCHANGED <<config, rsp, ini>>
        /\ UNCHANGED <<modelVars, pairVars>>

\* parse_restriction_sections(config, compartments)
parse_restriction_sections ==
    /\ rsp' = ParseRestrictionSections(config, AllCompartments)
    /\ UNCHANGED <<config, cfp, ini, typed>>
    /\ UNCHANGED <<modelVars, pairVars>>

ParserNext == parse_config_ini \/ parse_restriction_sections

ParserSpec == ParserInit /\ [][ParserNext]_vars

\* the parsers run on config files without restrictions, for every choice of
\* the values of the three sections
TypingInit ==
    /\ config = << >>
    /\ cfp = NotCalled
    /\ rsp = NotCalled
    /\ ini \in ConfigFiles
    /\ typed = NotTyped
    /\ self = SEIRInit(DefaultKwargs)
    /\ op = "__init__"
    /\ err = FALSE
    /\ out = << >>
    /\ instances = << >>
    /\ heap = << >>
    /\ alone = << >>

TypingSpec == TypingInit /\ [][ParserNext]_vars

\* the model after construction, for every configuration
Init ==
    /\ config = << >>
    /\ cfp = NotCalled
    /\ rsp = NotCalled
    /\ ini = DefaultConfigFile
    /\ typed = NotTyped
    /\ \E k \in Kwargs : self = SEIRInit(k)
    /\ op = "__init__"
    /\ err = FALSE
    /\ out = << >>
    /\ instances = << >>
    /\ heap = << >>
    /\ alone = << >>

\* model(t, Y)
call ==
    \E t \in CallTimes :
    \E Y \in {SampleY(self)} \cup (IF self.Y0 # None THEN {self.Y0} ELSE {}) :
        /\ self' = AfterCall(self, t)
        /\ op' = "__call__"
        /\ err' = FALSE
        /\ out' = [t |-> t, Y |-> Y, res |-> Call(self, t, Y)]
        /\ UNCHANGED <<parserVars, pairVars>>

\* model.set_initial_state(population_exposed, population_infected, probabilities)
set_initial_state ==
    \E a \in InitialStateArgs(self.num_compartments) :
        LET r == SetInitialState(self, a.population_exposed, a.population_infected,
                                 a.probabilities)
        IN  /\ self' = r.self
            /\ op' = "set_initial_state"
            /\ err' = r.err
            /\ out' = [args |-> a]
            /\ UNCHANGED <<parserVars, pairVars>>

\* model.simulate(max_simulation_time, t0)
simulate ==
    \E t0 \in StartTimes :
        LET r == Simulate(self, MaxSimulationTime, t0)
        IN  /\ self' = r.self
            /\ op' = "simulate"
            /\ err' = r.err
            /\ out' = << >>
            /\ UNCHANGED <<parserVars, pairVars>>

\* model.SEIR_solution(time): calling None raises
SEIR_solution ==
    \E time \in QueryArrays :
        /\ op' = "SEIR_solution"
        /\ err' = ~self.SEIR_solution.set
        /\ out' = IF self.SEIR_solution.set
                  THEN [time |-> time, rows |-> SEIRSolution(self, time)]
                  ELSE << >>
        /\ UNCHANGED <<self, config, cfp, rsp, ini, typed, pairVars>>

\* model.evaluate_solution(time, only_real_results)
evaluate_solution ==
    \E time \in EvaluationTimes, only_real_results \in BOOLEAN :
        LET r == EvaluateSolution(self, time, only_real_results)
        IN  /\ op' = "evaluate_solution"
            /\ err' = r.err
            /\ out' = IF r.err THEN << >>
                      ELSE [time |-> time, only_real_results |-> only_real_results,
                            table |-> r.table]
            /\ self' = IF r.err THEN self ELSE AfterEvaluate(self, time)
            /\ UNCHANGED <<parserVars, pairVars>>

Next == call \/ set_initial_state \/ simulate \/ SEIR_solution \/ evaluate_solution

Spec == Init /\ [][Next]_vars

\* the arguments the constructor is called with when only it is run
ConstructorArgs ==
    { k \in KwargsGiven :
        k.restrictions_function = NoFunction /\ k.imported_cases_function = NoImports }

\* SEIR(**kwargs): a new instance, or the error of an assertion and no instance
__init__ ==
    \E k \in ConstructorArgs :
        /\ self' = IF InitOk(k) THEN SEIRInit(k) ELSE self
        /\ op' = "__init__"
        /\ err' = ~InitOk(k)
        /\ out' = [kwargs |-> k]
        /\ UNCHANGED <<parserVars, pairVars>>

\* the constructor called with every choice of its arguments
ConstructionInit ==
    /\ config = << >>
    /\ cfp = NotCalled
    /\ rsp = NotCalled
    /\ ini = DefaultConfigFile
    /\ typed = NotTyped
    /\ self = SEIRInit(DefaultKwargs)
    /\ op = "__init__"
    /\ err = FALSE
    /\ out = [kwargs |-> DefaultKwargs]
    /\ instances = << >>
    /\ heap = << >>
    /\ alone = << >>

ConstructionSpec == ConstructionInit /\ [][__init__]_vars

(***************************************************************************)
(* Two instances built from the same arrays and the same restrictions      *)
(* function, each run by its own thread.  A thread can be preempted inside *)
(* __call__ between the write of self._inf_matrix and the reads of it.     *)
(***************************************************************************)
\* the keyword arguments both instances are built from
PairKwargs == { k \in Kwargs : k.restrictions_function = MatrixRestrictions }

\* the initial states set: numbers of people
PairInitialStateArgs(n) == { a \in InitialStateArgs(n) : ~a.probabilities }

\* the query times of the evaluations
PairEvaluationTimes == NpArange(0, 2 * MaxSimulationTime + 1, 1)

Idle(i) == Len(instances[i].pending) = 0

PairInit ==
    /\ config = << >>
    /\ cfp = NotCalled
    /\ rsp = NotCalled
    /\ ini = DefaultConfigFile
    /\ typed = NotTyped
    /\ self = SEIRInit(DefaultKwargs)
    /\ op = "__init__"
    /\ err = FALSE
    /\ out = << >>
    /\ \E k \in PairKwargs :
          /\ instances = <<NewInstance(1, k), NewInstance(2, k)>>
          /\ heap = NewMemory(k)
          /\ alone = <<SEIRInit(k), SEIRInit(k)>>

\* instance i enters model(t, Y) and assigns self._inf_matrix
call_assign(i) ==
    /\ Idle(i)
    /\ \E t \in CallTimes :
          /\ heap' = CallWrite(instances[i], heap, t)
          /\ instances' = [instances EXCEPT
                              ![i].pending = <<t, SampleY(Deref(instances[i], heap))>>]
          /\ out' = [instance |-> i, t |-> t]
    /\ op' = "_inf_matrix"
    /\ err' = FALSE
    /\ UNCHANGED <<parserVars, self, alone>>

\* instance i computes the derivatives and returns from model(t, Y)
call_return(i) ==
    /\ ~Idle(i)
    /\ LET t == instances[i].pending[1]
           Y == instances[i].pending[2]
       IN  /\ out' = [instance |-> i, t |-> t, Y |-> Y,
                      res |-> CallRead(instances[i], heap, t, Y)]
           /\ alone' = [alone EXCEPT ![i] = AfterCall(alone[i], t)]
    /\ instances' = [instances EXCEPT ![i].pending = << >>]
    /\ op' = "__call__"
    /\ err' = FALSE
    /\ UNCHANGED <<parserVars, self, heap>>

\* a method of instance i that runs without preemption: what it leaves in
\* the instance and in the memory, and what it leaves when run alone
Method(i, r, ra, name, result) ==
    /\ heap' = StoreMemory(instances[i], heap, r.self)
    /\ instances' = [instances EXCEPT ![i] = StoreInstance(instances[i], r.self)]
    /\ alone' = [alone EXCEPT ![i] = ra.self]
    /\ op' = name
    /\ err' = r.err
    /\ out' = result
    /\ UNCHANGED <<parserVars, self>>

\* instances[i].set_initial_state(population_exposed, population_infected)
pair_set_initial_state(i) ==
    /\ Idle(i)
    /\ \E a \in PairInitialStateArgs(alone[i].num_compartments) :
          Method(i, SetInitialState(Deref(instances[i], heap), a.population_exposed,
                                    a.population_infected, a.probabilities),
                 SetInitialState(alone[i], a.population_exposed, a.population_infected,
                                 a.probabilities),
                 "set_initial_state", [instance |-> i])

\* instances[i].simulate(max_simulation_time)
pair_simulate(i) ==
    /\ Idle(i)
    /\ Method(i, Simulate(Deref(instances[i], heap), MaxSimulationTime, 0),
              Simulate(alone[i], MaxSimulationTime, 0), "simulate", [instance |-> i])

\* instances[i].evaluate_solution(time)
pair_evaluate_solution(i) ==
    /\ Idle(i)
    /\ \E only_real_results \in BOOLEAN :
          LET obj == Deref(instances[i], heap)
              r == EvaluateSolution(obj, PairEvaluationTimes, only_real_results)
          IN  Method(i, [err |-> r.err,
                         self |-> IF r.err THEN obj ELSE AfterEvaluate(obj, PairEvaluationTimes)],
                     [self |-> alone[i]], "evaluate_solution",
                     IF r.err THEN [instance |-> i]
                     ELSE [instance |-> i, time |-> PairEvaluationTimes,
                           only_real_results |-> only_real_results, table |-> r.table])

PairNext ==
    \E i \in 1..2 :
        \/ call_assign(i)
        \/ call_return(i)
        \/ pair_set_initial_state(i)
        \/ pair_simulate(i)
        \/ pair_evaluate_solution(i)

PairSpec == PairInit /\ [][PairNext]_vars

(***************************************************************************)
(* The right-hand side called again and again, at times in any order, by   *)
(* the class of SEIR/seir.py and, for the same (t, Y), by the class of     *)
(* seir/model.py built from the same arguments.                            *)
(***************************************************************************)
\* the times of the calls
RhsTimes == 0..MaxSimulationTime

\* the state vectors of the calls: people in every block, nobody infected,
\* nobody exposed
RhsStates(n, population) ==
    { [i \in 1..n |-> population[i] - 3 * One] \o Vec(n, One) \o Vec(n, One)
          \o Vec(n, One),
      [i \in 1..n |-> population[i] - One] \o Vec(n, One) \o Vec(n, 0) \o Vec(n, 0),
      [i \in 1..n |-> population[i] - 2 * One] \o Vec(n, 0) \o Vec(n, 2 * One) \o Vec(n, 0) }

RhsInit ==
    /\ config = << >>
    /\ cfp = NotCalled
    /\ rsp = NotCalled
    /\ ini = DefaultConfigFile
    /\ typed = NotTyped
    /\ \E k \in Kwargs : self = SEIRInit(k)
    /\ op = "__init__"
    /\ err = FALSE
    /\ out = << >>
    /\ instances = << >>
    /\ heap = << >>
    /\ alone = << >>

\* model(t, Y), and what the model of seir/model.py gives for the same call
rhs ==
    \E t \in RhsTimes :
    \E Y \in RhsStates(self.num_compartments, self.population) :
        /\ self' = AfterCall(self, t)
        /\ op' = "__call__"
        /\ err' = FALSE
        /\ out' = [t |-> t, Y |-> Y, res |-> Call(self, t, Y),
                   model_py |-> ModelPyCall(self, t, Y)]
        /\ UNCHANGED <<parserVars, pairVars>>

RhsSpec == RhsInit /\ [][rhs]_vars

(***************************************************************************)
(* Claims about the restriction parsers (checked under ParserSpec).        *)
(***************************************************************************)
\* entry (i, j) of a numpy value, a scalar standing for each of its entries
Entry(val, i, j) == IF val.kind = "scalar" THEN val.v ELSE val.v[i][j]

RECURSIVE ProductOf(_)
ProductOf(xs) == IF xs = << >> THEN One ELSE Mul(ProductOf(Tail(xs)), Head(xs))

\* the elementwise product of a list of numpy values
ElementwiseProduct(vals, n) ==
    IF \A k \in 1..Len(vals) : vals[k].kind = "scalar"
    THEN Scalar(ProductOf([k \in 1..Len(vals) |-> vals[k].v]))
    ELSE Matrix([i \in 1..n |-> [j \in 1..n |->
             ProductOf([k \in 1..Len(vals) |-> Entry(vals[k], i, j)])]])

\* the sections of the file in another order
Reordered(p) == [k \in 1..Len(config) |-> config[p[k]]]

NumCompartments == Len(AllCompartments)

\* the functions either parser gives for the restriction sections, one by one
RspIndividual ==
    [k \in 1..Len(RestrictionSections(config)) |->
        ParseRestrictionSection(RestrictionSections(config)[k], AllCompartments).fun]

CfpIndividual ==
    [k \in 1..Len(RestrictionSections(config)) |->
        CfpParseRestrictionSection(RestrictionSections(config)[k], AllCompartments).fun]

ValuesAt(funs, t) == [k \in 1..Len(funs) |-> RestrictionsFunction(funs[k], t)]

\* C7: when two or more restriction sections are parsed, the combined
\* restrictions function equals, at every time t, the elementwise product of
\* the individual restriction functions at t, and parsing the sections in any
\* other order gives a function with the same values.
C7_CombinedIsProduct ==
    /\ (rsp.status = "ok" /\ rsp.fun.kind = "combined") =>
         \A t \in QueryTimes :
            /\ SameValue(CallRestrictions(rsp.fun, t),
                         ElementwiseProduct(ValuesAt(RspIndividual, t), NumCompartments))
            /\ \A p \in Permutations(1..Len(config)) :
                 LET other == ParseRestrictionSections(Reordered(p), AllCompartments)
                 IN  other.status = "ok"
                     /\ SameValue(CallRestrictions(other.fun, t), CallRestrictions(rsp.fun, t))
    /\ (cfp.status = "ok" /\ cfp.fun.kind = "combined") =>
         \A t \in QueryTimes :
            /\ SameValue(CallRestrictions(cfp.fun, t),
                         ElementwiseProduct(ValuesAt(CfpIndividual, t), NumCompartments))
            /\ \A p \in Permutations(1..Len(config)) :
                 LET other == CfpParseRestrictionSections(Reordered(p), AllCompartments)
                 IN  other.status = "ok"
                     /\ SameValue(CallRestrictions(other.fun, t), CallRestrictions(cfp.fun, t))

\* C7 witness: both parsers returned a combined function of two sections that
\* are active together on some day, one with a scalar and one with a matrix
C7_Witness ==
    /\ rsp.status = "ok" /\ rsp.fun.kind = "combined"
    /\ cfp.status = "ok" /\ cfp.fun.kind = "combined"
    /\ \E t \in QueryTimes :
         /\ \A k \in 1..Len(rsp.fun.restr_funs) :
               rsp.fun.restr_funs[k].day_begins <= t /\ t <= rsp.fun.restr_funs[k].day_ends
         /\ \E k, l \in 1..Len(rsp.fun.restr_funs) :
               /\ rsp.fun.restr_funs[k].inf_modifier.kind = "scalar"
               /\ rsp.fun.restr_funs[l].inf_modifier.kind = "matrix"
         /\ CallRestrictions(rsp.fun, t).kind = "matrix"

InWindow(fun, t) == fun.day_begins <= t /\ t <= fun.day_ends

DisjointWindows(f, g) == f.day_ends < g.day_begins \/ g.day_ends < f.day_begins

\* what C8 says of one combined function of two restrictions
TwoDisjoint(f) ==
    (f.kind = "combined" /\ Len(f.restr_funs) = 2
       /\ DisjointWindows(f.restr_funs[1], f.restr_funs[2])) =>
    \A t \in QueryTimes :
       /\ (~InWindow(f.restr_funs[1], t) /\ ~InWindow(f.restr_funs[2], t))
             => (CallRestrictions(f, t).kind = "scalar" /\ CallRestrictions(f, t).v = One)
       /\ \A k \in 1..2 :
             InWindow(f.restr_funs[k], t)
                => SameValue(CallRestrictions(f, t), f.restr_funs[k].inf_modifier)

\* C8: with two restriction functions whose windows are disjoint, the combined
\* function returns exactly 1.0 at every time outside both windows and exactly
\* the modifier of the active restriction at every time inside one window.
C8_DisjointWindows ==
    /\ rsp.status = "ok" => TwoDisjoint(rsp.fun)
    /\ cfp.status = "ok" => TwoDisjoint(cfp.fun)

\* C8 witness: a combined function of two restrictions with disjoint windows,
\* a scalar and a matrix modifier, and a query time outside both windows
C8_Witness ==
    /\ rsp.status = "ok" /\ rsp.fun.kind = "combined" /\ Len(rsp.fun.restr_funs) = 2
    /\ DisjointWindows(rsp.fun.restr_funs[1], rsp.fun.restr_funs[2])
    /\ rsp.fun.restr_funs[1].inf_modifier.kind = "matrix"
    /\ rsp.fun.restr_funs[2].inf_modifier.kind = "scalar"
    /\ \E t \in QueryTimes :
          ~InWindow(rsp.fun.restr_funs[1], t) /\ ~InWindow(rsp.fun.restr_funs[2], t)
          /\ rsp.fun.restr_funs[1].day_ends < t

\* the modifier a section states: the float, the matrix of the file, or for a
\* matrix definition the product, per entry, of the factors of the rows that
\* cover the entry in either direction
RECURSIVE CoveringProduct(_, _, _)
CoveringProduct(rows, i, j) ==
    IF rows = << >> THEN One
    ELSE LET line == SingleLine(Head(rows), AllCompartments)
         IN  Mul(CoveringProduct(Tail(rows), i, j),
                 IF <<i, j>> \in line.pairs THEN line.modifier ELSE One)

StatedModifier(modstr) ==
    IF modstr.form = "float" THEN Scalar(modstr.val)
    ELSE IF modstr.form = "file" THEN Matrix(modstr.matrix)
    ELSE Matrix([i \in 1..NumCompartments |-> [j \in 1..NumCompartments |->
                    CoveringProduct(modstr.lines, i, j)]])

\* C9 (as claimed): every restriction section, whatever the form of its
\* modifier (a float, 0 included, a file, a matrix definition), parses to a
\* function that returns 1.0 outside [day-begins, day-ends] and the section's
\* modifier inside it, endpoints included.
C9_EverySectionParses ==
    rsp.status # "unset" =>
      \A k \in 1..Len(RestrictionSections(config)) :
         LET section == RestrictionSections(config)[k]
             parsed == ParseRestrictionSection(section, AllCompartments)
         IN  /\ parsed.ok
             /\ \A t \in QueryTimes :
                  SameValue(RestrictionsFunction(parsed.fun, t),
                            IF section.begins <= t /\ t <= section.ends
                            THEN StatedModifier(section.modifier) ELSE Scalar(One))

\* C10 (as claimed): parse_config_ini returns as restrictions info a list with
\* one dictionary per restriction section, in section order, entry k holding
\* section k's begins, ends and title.  Stated for the files with two or more
\* restriction sections, the case of the repository's tests.
C10_InfoListPerSection ==
    (cfp.status = "ok" /\ Len(RestrictionSections(config)) >= 2) =>
      /\ cfp.info.kind = "list"
      /\ Len(cfp.info.v) = Len(RestrictionSections(config))
      /\ \A k \in 1..Len(RestrictionSections(config)) :
            /\ cfp.info.v[k].begins = RestrictionSections(config)[k].begins
            /\ cfp.info.v[k].ends = RestrictionSections(config)[k].ends
            /\ cfp.info.v[k].title = Tail(RestrictionSections(config)[k].name)
(***************************************************************************)
(* Claims about the model engine.                                          *)
(***************************************************************************)
\* the four blocks of a state or derivative vector, added per compartment
BlockSums(Y) ==
    LET n == self.num_compartments
    IN  [i \in 1..n |-> Block(Y, 1, n)[i] + Block(Y, 2, n)[i] + Block(Y, 3, n)[i]
                        + Block(Y, 4, n)[i]]

\* the initial state, every derivative returned and every row of the dense
\* solution keep S + E + I + R at the population, per compartment
Conserved ==
    /\ (op = "set_initial_state" /\ ~err) => BlockSums(self.Y0) = self.population
    /\ op = "__call__" => BlockSums(out.res) = Vec(self.num_compartments, 0)
    /\ (op = "SEIR_solution" /\ ~err) =>
          \A k \in DOMAIN out.rows : BlockSums(out.rows[k]) = self.population

\* the imported-cases function, if any, only moves people between the blocks
ImportsSumToZero ==
    LET f == self.imported_cases_function
    IN  f.kind = "None" \/ f.DS + f.DE + f.DI = 0

\* C1 as stated: for every configuration, with or without an imported-cases
\* function, S + E + I + R equals the population in every compartment: in the
\* initial state, in the solution at every queried time, and the four blocks
\* of every derivative sum to zero.
C1_ConservationForEveryConfiguration == Conserved

\* C1 as the code has it: S + E + I + R equals the population in every
\* compartment when there is no imported-cases function or the three vectors
\* it returns sum to zero in every compartment.
C1_ConservationWithoutNetImports == ImportsSumToZero => Conserved

\* a solution queried before and after t0 on a model whose imported cases
\* move people from the susceptible to the exposed
C1_Witness ==
    /\ op = "SEIR_solution" /\ ~err
    /\ self.imported_cases_function.kind # "None" /\ ImportsSumToZero
    /\ \E k \in DOMAIN out.time : out.time[k] < self.SEIR_solution.t0
    /\ \E k \in DOMAIN out.time : out.time[k] > self.SEIR_solution.t0
    /\ \E k \in DOMAIN out.rows : out.rows[k] # self.Y0

IsSymmetric(m) == \A i, j \in DOMAIN m : m[i][j] = m[j][i]

\* C2 as stated: the infectivity matrix computed at construction is symmetric
\* for any contact matrix and any infectious period, scalar or a vector with
\* differing entries.
C2_SymmetricForAnyInfectiousPeriod == IsSymmetric(self.infectivity_matrix)

\* C2 as the code has it: the infectivity matrix is symmetric for any contact
\* matrix when the infectious period is the same in every compartment.
C2_SymmetricForEqualInfectiousPeriods ==
    (\A i, j \in DOMAIN self.infectious_period :
        self.infectious_period[i] = self.infectious_period[j])
    => IsSymmetric(self.infectivity_matrix)

\* two compartments with one infectious period and an asymmetric contact matrix
C2_Witness ==
    /\ self.num_compartments = 2
    /\ self.infectious_period[1] = self.infectious_period[2]
    /\ ~IsSymmetric(self.contacts_matrix)
    /\ self.infectivity_matrix[1][2] # 0

\* C3: every row of the value the dense solution returns whose query time is
\* strictly less than t0 equals Y0, for any array of query times in any order.
C3_RowsBeforeT0AreY0 ==
    (op = "SEIR_solution" /\ ~err) =>
        \A k \in DOMAIN out.time :
            out.time[k] < self.SEIR_solution.t0 => out.rows[k] = self.Y0

\* the columns of a quantity in the table: one per compartment and the total
ColumnsOf(table, name) == {k \in DOMAIN table.columns : table.columns[k][1] = name}

\* every cell of a quantity is NaN before the boundary and a number from it on
MaskedBefore(name, boundary) ==
    \A r \in DOMAIN out.table.data : \A k \in ColumnsOf(out.table, name) :
        out.table.data[r][k].nan <=> out.time[r] < boundary

\* C4: with only_real_results, every hospitalized and ICU cell of the table at
\* a time before t0 + lag + duration, and every deaths cell before t0 + lag,
\* is NaN, and every such cell at or after that time is a finite number.
C4_CausalMasking ==
    (op = "evaluate_solution" /\ ~err /\ out.only_real_results) =>
        /\ MaskedBefore("hospitalized (active)",
                        self.t0.v + self.hospitalization_lag_from_onset
                        + self.hospitalization_duration)
        /\ MaskedBefore("in ICU", self.t0.v + self.icu_lag_from_onset + self.icu_duration)
        /\ MaskedBefore("deaths", self.t0.v + self.death_lag_from_onset)

\* a table of two compartments with a hospitalized cell on each side of the
\* boundary, the later one on the boundary itself
C4_Witness ==
    /\ op = "evaluate_solution" /\ ~err /\ out.only_real_results
    /\ self.num_compartments = 2
    /\ \E r \in DOMAIN out.table.data : \E k \in ColumnsOf(out.table, "hospitalized (active)") :
          /\ out.time[r] = self.t0.v + self.hospitalization_lag_from_onset
                           + self.hospitalization_duration
          /\ ~out.table.data[r][k].nan /\ out.table.data[r][k].v > 0
          /\ out.table.data[r - 1][k].nan

\* C5: simulate raises when no initial state has been set, evaluate_solution
\* raises when no simulation has completed, and a call that raises leaves Y0,
\* t0 and SEIR_solution as they were.
C5_FailingCallsChangeNothing ==
    [][ /\ (op' = "simulate" /\ self.Y0 = None) => err'
        /\ (op' = "evaluate_solution" /\ ~self.SEIR_solution.set) => err'
        /\ err' => /\ self'.Y0 = self.Y0
                   /\ self'.t0 = self.t0
                   /\ self'.SEIR_solution = self.SEIR_solution ]_vars

\* evaluate_solution has raised on a model with an initial state and no solution
C5_Witness ==
    /\ op = "evaluate_solution" /\ err
    /\ self.Y0 # None /\ ~self.SEIR_solution.set /\ ~self.t0.set

\* C6: without a restrictions function the matrix the right-hand side uses
\* is the infectivity matrix computed at construction, at every call time and
\* after any number of calls.
C6_NoRestrictionsKeepsMatrix ==
    self.restrictions_function.kind = "None" =>
        /\ self.inf_matrix = self.infectivity_matrix
        /\ \A t \in CallTimes : EffectiveMatrix(self, t) = self.infectivity_matrix

\* the right-hand side has been called, after a simulation, on a model without
\* restrictions
C6_Witness ==
    /\ self.restrictions_function.kind = "None"
    /\ op = "__call__" /\ self.SEIR_solution.set
    /\ \E i \in 1..self.num_compartments : out.res[i] # 0

(***************************************************************************)
(* Claims about the typing of the config file.                             *)
(***************************************************************************)
\* the type a value is said to get, the words read as True and as False given
StatedType(section, key, value, trues, falses) ==
    IF HasComma(value)
    THEN IF section = "model" /\ key = "compartments"
         THEN LET parts == SplitComma(value)
              IN  Typed(PyStrList([k \in 1..Len(parts) |-> Strip(parts[k])]))
         ELSE FloatList(value)
    ELSE IF IsFloatText(value) THEN Typed(PyFloat(FloatOf(value)))
    ELSE IF section = "model" THEN ValueError
    ELSE IF Lower(value) \in trues THEN Typed(PyBool(TRUE))
    ELSE IF Lower(value) \in falses THEN Typed(PyBool(FALSE))
    ELSE IF section = "simulation" THEN Typed(PyStr(value))
    ELSE ValueError

\* two typed values are the same: the same type, then the same value
SameTyped(a, b) == a.type = b.type /\ a.v = b.v

\* every key of the section is in the dictionary once, with the type stated
SectionAsStated(section, items, d, trues, falses) ==
    \A k \in 1..Len(items) :
        /\ Cardinality({j \in 1..Len(d) : d[j].key = items[k].key}) = 1
        /\ SameTyped(DictGet(d, items[k].key),
                     StatedType(section, items[k].key, items[k].value, trues, falses).val)

SectionRaises(section, items, trues, falses) ==
    \E k \in 1..Len(items) :
        ~StatedType(section, items[k].key, items[k].value, trues, falses).ok

FileAsStated(trues, falses) ==
    typed.status # "unset" =>
        IF \/ SectionRaises("model", ini.model, trues, falses)
           \/ SectionRaises("initial state", ini.initial_state, trues, falses)
           \/ SectionRaises("simulation", ini.simulation, trues, falses)
        THEN typed.status = "error"
        ELSE /\ typed.status = "ok"
             /\ SectionAsStated("model", ini.model, typed.kwargs, trues, falses)
             /\ SectionAsStated("initial state", ini.initial_state,
                                typed.initial_state_kwargs, trues, falses)
             /\ SectionAsStated("simulation", ini.simulation,
                                typed.simulation_kwargs, trues, falses)

\* C11 as stated: a comma value becomes a list of floats (of stripped strings
\* for compartments), a number a float; in [initial state] and [simulation]
\* yes/true become True and no/false become False, and any other value raises
\* ValueError in [initial state] and is kept as a string in [simulation];
\* every key of a section is in its dictionary exactly once.
C11_ValuesTypedAsStated ==
    FileAsStated({ <<"y", "e", "s">>, <<"t", "r", "u", "e">> },
                 { <<"n", "o">>, <<"f", "a", "l", "s", "e">> })

\* C11 as the code has it: the same, with yau read as True and nay as False
\* as well, and ValueError for a value of [model] without a comma that is no
\* number and for a comma value with an entry that is no number.
C11_ValuesTypedWithYauAndNay ==
    FileAsStated({ <<"y", "e", "s">>, <<"y", "a", "u">>, <<"t", "r", "u", "e">> },
                 { <<"n", "o">>, <<"n", "a", "y">>, <<"f", "a", "l", "s", "e">> })

\* a file typed without error: a list of floats, a boolean from a capitalised
\* word, a method kept as a string and the default compartments
C11_Witness ==
    /\ typed.status = "ok"
    /\ SameTyped(DictGet(typed.kwargs, "compartments"), PyStrList(<< <<"A", "l", "l">> >>))
    /\ SameTyped(DictGet(typed.kwargs, "population"), PyFloatList(<<8 * One, 4 * One>>))
    /\ SameTyped(DictGet(typed.kwargs, "initial_R0"), PyFloat(2 * One + One \div 2))
    /\ SameTyped(DictGet(typed.initial_state_kwargs, "probabilities"), PyBool(FALSE))
    /\ SameTyped(DictGet(typed.initial_state_kwargs, "population_exposed"),
                 PyFloatList(<<One, 2 * One + One \div 4>>))
    /\ SameTyped(DictGet(typed.simulation_kwargs, "method"), PyStr(<<"R", "K", "4", "5">>))

(***************************************************************************)
(* Claims about sizes, validation and the initial state.                   *)
(***************************************************************************)
\* a sequence whose length is not the number of compartments
Mismatch(x, n) == x.kind = "list" /\ Len(x.v) # n

\* some per-compartment argument or the contact matrix of the constructor
\* does not have the size of the compartments
SizesMismatch(k) ==
    LET n == Len(Compartments(k))
    IN  \/ Mismatch(k.population, n) \/ Mismatch(k.incubation_period, n)
        \/ Mismatch(k.infectious_period, n) \/ Mismatch(k.hospitalization_probability, n)
        \/ Mismatch(k.icu_probability, n) \/ Mismatch(k.death_probability, n)
        \/ /\ k.contacts_matrix # None
           /\ \/ Len(k.contacts_matrix) # n
              \/ \E i \in DOMAIN k.contacts_matrix : Len(k.contacts_matrix[i]) # n

\* C12: every input whose size does not match the number of compartments is
\* rejected: the constructor raises for a parameter sequence or a contact
\* matrix of another size, set_initial_state raises for an exposed or infected
\* sequence of another length, with and without the probabilities flag, and
\* the parameters of a constructed model have one entry per compartment.
C12_WrongSizesRejected ==
    /\ \A k \in KwargsGiven : SizesMismatch(k) => ~InitOk(k)
    /\ /\ Len(self.population) = self.num_compartments
       /\ Len(self.incubation_period) = self.num_compartments
       /\ Len(self.infectious_period) = self.num_compartments
    /\ (/\ op = "set_initial_state"
        /\ \/ Mismatch(out.args.population_exposed, self.num_compartments)
           \/ Mismatch(out.args.population_infected, self.num_compartments)) => err

\* the entries of a scalar or per-compartment argument
Entries(x) == IF x.kind = "scalar" THEN {x.v} ELSE {x.v[i] : i \in DOMAIN x.v}

\* some population, incubation period or infectious period is zero or negative
HasNonPositive(k) ==
    \E x \in Entries(k.population) \cup Entries(k.incubation_period)
             \cup Entries(k.infectious_period) : x <= 0

\* C13: the constructor raises for every configuration with a population, an
\* incubation period or an infectious period that is zero or negative.
C13_NonPositiveRejected == (op = "__init__" /\ HasNonPositive(out.kwargs)) => err

\* the exposed (or infected) people an accepted argument stands for: the
\* fractions of each compartment's population, the vector as given, or a
\* number of people spread evenly over the compartments
StatedPeople(x, probabilities, people) ==
    LET n == self.num_compartments
    IN  IF probabilities
        THEN people = [i \in 1..n |->
                Mul(IF x.kind = "scalar" THEN x.v ELSE x.v[i], self.population[i])]
        ELSE IF x.kind = "list" THEN people = x.v
        ELSE /\ \A i \in 1..n : people[i] = people[1]
             /\ SumSeq(people) = x.v

\* C14: after set_initial_state with an accepted form of the arguments, Y0 is
\* the four blocks population - exposed - infected, exposed, infected and
\* zeros; with probabilities exposed and infected are the fractions times the
\* population of each compartment, without a vector is used as given.
C14_InitialStateBlocks ==
    (/\ op = "set_initial_state" /\ ~err
     /\ ~Mismatch(out.args.population_exposed, self.num_compartments)
     /\ ~Mismatch(out.args.population_infected, self.num_compartments)) =>
        LET n == self.num_compartments
            exposed == Block(self.Y0, 2, n)
            infected == Block(self.Y0, 3, n)
        IN  /\ Len(self.Y0) = 4 * n
            /\ StatedPeople(out.args.population_exposed, out.args.probabilities, exposed)
            /\ StatedPeople(out.args.population_infected, out.args.probabilities, infected)
            /\ Block(self.Y0, 1, n)
                 = [i \in 1..n |-> self.population[i] - exposed[i] - infected[i]]
            /\ Block(self.Y0, 4, n) = Vec(n, 0)

\* fractions given for two compartments of different populations, over an
\* earlier initial state
C14_Witness ==
    /\ op = "set_initial_state" /\ ~err /\ out.args.probabilities
    /\ out.args.population_exposed.kind = "scalar"
    /\ out.args.population_infected.kind = "list"
    /\ self.num_compartments = 2 /\ self.population[1] # self.population[2]
    /\ Block(self.Y0, 2, 2)[1] # Block(self.Y0, 2, 2)[2]
    /\ self.SEIR_solution.set

NonNegativeExposed ==
    LET n == self.num_compartments
    IN  /\ \A i \in 1..n : Block(self.Y0, 2, n)[i] >= 0
        /\ \A k \in DOMAIN self.SEIR_solution.ys :
              \A i \in 1..n : Block(self.SEIR_solution.ys[k], 2, n)[i] >= 0

\* the cells of a plain column never decrease from a row to the next
NonDecreasing(name) ==
    \A k \in ColumnsOf(out.table, name) : \A r \in 1..(Len(out.table.data) - 1) :
        out.table.data[r][k] <= out.table.data[r + 1][k]

\* the cells of a maskable column never decrease where both are numbers
NonDecreasingWhereDefined(name) ==
    \A k \in ColumnsOf(out.table, name) : \A r \in 1..(Len(out.table.data) - 1) :
        (~out.table.data[r][k].nan /\ ~out.table.data[r + 1][k].nan)
            => out.table.data[r][k].v <= out.table.data[r + 1][k].v

\* C16: for ascending, evenly spaced query times and exposed counts that are
\* not negative, the column 'infected (total)' never decreases over the rows
\* of the table, across t0 and for any t0, and the column 'deaths' never
\* decreases over the rows where it is defined.
C16_CumulativeColumnsMonotone ==
    (op = "evaluate_solution" /\ ~err /\ NonNegativeExposed) =>
        /\ NonDecreasing("infected (total)")
        /\ NonDecreasingWhereDefined("deaths")

\* the eight quantities of the table, in the stated order
StatedQuantities == <<"susceptible", "exposed", "infected (active)", "infected (total)",
                      "removed", "hospitalized (active)", "in ICU", "deaths">>

\* the position of the column of compartment i (the aggregate: i = n + 1) of
\* the q-th quantity
ColumnAt(q, i) == 1 + (q - 1) * (self.num_compartments + 1) + i

\* the data of the q-th quantity for the query times of the last evaluation:
\* a row of numbers (or of cells, for the maskable quantities) per query time
QuantityData(q) ==
    LET n == self.num_compartments
        SEIR == SEIRSolution(self, out.time)
    IN  CASE q = 1 -> [r \in DOMAIN out.time |-> Block(SEIR[r], 1, n)]
          [] q = 2 -> [r \in DOMAIN out.time |-> Block(SEIR[r], 2, n)]
          [] q = 3 -> [r \in DOMAIN out.time |-> Block(SEIR[r], 3, n)]
          [] q = 4 -> Icumulative(self, out.time, SEIR)
          [] q = 5 -> [r \in DOMAIN out.time |-> Block(SEIR[r], 4, n)]
          [] q = 6 -> ActiveCases(self, out.time, self.hospitalization_probability,
                                  self.hospitalization_duration,
                                  self.hospitalization_lag_from_onset, 2,
                                  out.only_real_results)
          [] q = 7 -> ActiveCases(self, out.time, self.icu_probability, self.icu_duration,
                                  self.icu_lag_from_onset, 3, out.only_real_results)
          [] q = 8 -> Deaths(self, out.time, out.only_real_results)

\* the aggregate cell of the q-th quantity in a row is the sum of the cells of
\* the compartments (NaN when one of them is NaN)
AggregateIsSum(row, q) ==
    LET n == self.num_compartments
        cells == [i \in 1..n |-> row[ColumnAt(q, i)]]
    IN  IF q <= 5 THEN row[ColumnAt(q, n + 1)] = SumSeq(cells)
        ELSE row[ColumnAt(q, n + 1)] = CellSum(cells)

\* C17: the table has one row per query time in query order and 1 + 8 * (N + 1)
\* columns: 'time', then for each of the eight quantities the N columns of
\* the compartments in order and one aggregate column; the aggregate cell is
\* the sum of the cells of the compartments, and each column holds the data of
\* the quantity it is named after.
C17_TableLayout ==
    (op = "evaluate_solution" /\ ~err) =>
        LET n == self.num_compartments
            table == out.table
        IN  /\ Len(table.data) = Len(out.time)
            /\ Len(table.columns) = 1 + 8 * (n + 1)
            /\ table.columns[1] = <<"time">>
            /\ \A q \in 1..8 :
                  /\ \A i \in 1..n :
                        table.columns[ColumnAt(q, i)] = <<StatedQuantities[q], self.compartments[i]>>
                  /\ table.columns[ColumnAt(q, n + 1)] = <<StatedQuantities[q]>>
            /\ \A r \in DOMAIN table.data :
                  /\ Len(table.data[r]) = 1 + 8 * (n + 1)
                  /\ table.data[r][1] = out.time[r]
                  /\ \A q \in 1..8 :
                        /\ AggregateIsSum(table.data[r], q)
                        /\ \A i \in 1..n :
                              table.data[r][ColumnAt(q, i)] = QuantityData(q)[r][i]

\* a table of a model of two compartments whose quantities differ from each
\* other and whose aggregate of the hospitalized is NaN in one row and a number
\* in another
C17_Witness ==
    /\ op = "evaluate_solution" /\ ~err
    /\ self.num_compartments = 2
    /\ \E r \in DOMAIN out.table.data :
          /\ out.table.data[r][ColumnAt(4, 1)] # out.table.data[r][ColumnAt(5, 1)]
          /\ out.table.data[r][ColumnAt(1, 1)] # out.table.data[r][ColumnAt(1, 2)]
    /\ \E r \in DOMAIN out.table.data : out.table.data[r][ColumnAt(6, 3)].nan
    /\ \E r \in DOMAIN out.table.data :
          /\ ~out.table.data[r][ColumnAt(6, 3)].nan
          /\ out.table.data[r][ColumnAt(6, 3)].v > 0

\* the ICU occupancy built as the hospitalized are, with the parameters of the
\* ICU and the rate read from the exposed block of the lagged state
IcuFromExposed ==
    ActiveCases(self, out.time, self.icu_probability, self.icu_duration,
                self.icu_lag_from_onset, 2, out.only_real_results)

\* C19: the ICU occupancy is built as the hospitalized are: the rate of new ICU
\* admissions at t is icu_probability times E(t - icu_lag) / incubation_period,
\* read from the exposed block of the lagged state, accumulated over a window
\* of icu_duration.
C19_IcuRateFromExposed ==
    (op = "evaluate_solution" /\ ~err) =>
        \A r \in DOMAIN out.table.data : \A i \in 1..self.num_compartments :
            out.table.data[r][ColumnAt(7, i)] = IcuFromExposed[r][i]

\* the rate of new hospitalizations of compartment i at time s
NewHospitalizationRate(s, i) ==
    LET n == self.num_compartments
        lagged == SEIRSolution(self, <<s - self.hospitalization_lag_from_onset>>)[1]
    IN  Mul(self.hospitalization_probability[i],
            Div(Block(lagged, 2, n)[i], self.incubation_period[i]))

\* the admissions at the grid times s with s <= t < s + hospitalization_duration,
\* scaled by the time step
StatedHospitalized(t, i) ==
    LET dt == out.time[2] - out.time[1]
        steps == self.hospitalization_duration \div dt
    IN  dt * SumSeq([j \in 1..steps |-> NewHospitalizationRate(t - (j - 1) * dt, i)])

\* C20: the hospitalized at a query time t are the time-step-scaled sum of the
\* rate of new hospitalizations over the hospitalization_duration time units
\* ending at t: an admission at s counts at exactly the query times t with
\* s <= t < s + hospitalization_duration, and at no time before s.
C20_HospitalizedTrailingWindow ==
    (op = "evaluate_solution" /\ ~err) =>
        \A r \in DOMAIN out.table.data : \A i \in 1..self.num_compartments :
            ~out.table.data[r][ColumnAt(6, i)].nan =>
                out.table.data[r][ColumnAt(6, i)].v = StatedHospitalized(out.time[r], i)

\* C18: two instances built from the same arrays and the same restrictions
\* function share no mutable state: however their calls of the right-hand
\* side, of set_initial_state and of evaluate_solution interleave, each
\* returns (and each initial state is) what the instance gives when run alone.
C18_InstancesIndependent ==
    /\ op = "__call__" =>
          out.res = Call(alone[out.instance], out.t, out.Y)
    /\ op = "set_initial_state" =>
          Deref(instances[out.instance], heap).Y0 = alone[out.instance].Y0
    /\ (op = "evaluate_solution" /\ ~err) =>
          out.table = EvaluateSolution(alone[out.instance], out.time,
                                       out.only_real_results).table

\* instance 1 returns from a call while instance 2 is inside a call at another
\* time, the two sharing their population array and their scratch matrices
\* holding different values
C18_Witness ==
    /\ op = "__call__" /\ out.instance = 1
    /\ ~Idle(2) /\ instances[2].pending[1] # out.t
    /\ instances[1].refs.population = instances[2].refs.population
    /\ heap[instances[1].refs.inf_matrix] # heap[instances[2].refs.inf_matrix]
    /\ alone[1].Y0 # alone[2].Y0

\* C21: the deaths column is anchored to zero at t0: the cell of the query
\* time nearest t0 is exactly zero, with and without only_real_results.
C21_DeathsZeroAtT0 ==
    (op = "evaluate_solution" /\ ~err) =>
        LET nearest == ArgMinDistance(out.time, self.t0.v)
        IN  \A i \in 1..self.num_compartments :
                out.table.data[nearest][ColumnAt(8, i)] = Cell(0)

\* the trapezoidal integral of E / incubation_period of compartment i from t0
\* to the query time of row r (a row at or after t0), over t0 and the query
\* times from t0 on
IntegralFromT0(r, i) ==
    LET n == self.num_compartments
        t0 == self.t0.v
        SEIR == SEIRSolution(self, out.time)
        idx_pos == IndexesWhere(out.time, t0, 1, TRUE)
        rate == [q \in 1..Len(idx_pos) |->
                    Div(Block(SEIR[idx_pos[q]], 2, n)[i], self.incubation_period[i])]
        rate_t0 == Div(Block(self.Y0, 2, n)[i], self.incubation_period[i])
        time_pos == [q \in 1..Len(idx_pos) |-> out.time[idx_pos[q]]]
        first == ((time_pos[1] - t0) * (rate[1] + rate_t0)) \div 2
    IN  first + CumTrapz(rate, time_pos, r - (Len(out.time) - Len(idx_pos)))

\* C22: for any t0, 'infected (total)' at a query time t >= t0 is I0 plus the
\* trapezoidal integral of E / incubation_period from t0 to t, and at every
\* query time t < t0 it is I0.
C22_CumulativeAnchoredAtT0 ==
    (op = "evaluate_solution" /\ ~err) =>
        \A r \in DOMAIN out.table.data : \A i \in 1..self.num_compartments :
            LET I0 == Block(self.Y0, 3, self.num_compartments)[i]
            IN  out.table.data[r][ColumnAt(4, i)] =
                    IF out.time[r] < self.t0.v THEN I0 ELSE I0 + IntegralFromT0(r, i)

\* the infectivity matrix times the restrictions function at t, entry by entry
StatedEffectiveMatrix(t) ==
    IF self.restrictions_function.kind = "None" THEN self.infectivity_matrix
    ELSE LET r == CallRestrictions(self.restrictions_function, t)
         IN  [i \in 1..self.num_compartments |-> [j \in 1..self.num_compartments |->
                 Mul(IF r.kind = "scalar" THEN r.v ELSE r.v[i][j],
                     self.infectivity_matrix[i][j])]]

\* the derivative as stated, block by block
StatedRhs(t, Y) ==
    LET n == self.num_compartments
        S == [i \in 1..n |-> Y[i]]
        E == [i \in 1..n |-> Y[n + i]]
        I == [i \in 1..n |-> Y[2 * n + i]]
        imports == self.imported_cases_function
        given == imports.kind # "None"
        matrix == StatedEffectiveMatrix(t)
        force == [i \in 1..n |-> SumSeq([j \in 1..n |-> Mul(matrix[i][j], I[j])])]
        dS == [i \in 1..n |-> Mul(-Div(S[i], self.population[i]), force[i])]
        dE == [i \in 1..n |-> -dS[i] - Div(E[i], self.incubation_period[i])]
        dI == [i \in 1..n |-> Div(E[i], self.incubation_period[i])
                               - Div(I[i], self.infectious_period[i])]
        dR == [i \in 1..n |-> Div(I[i], self.infectious_period[i])]
    IN  [i \in 1..n |-> dS[i] + (IF given THEN imports.DS ELSE 0)]
        \o [i \in 1..n |-> dE[i] + (IF given THEN imports.DE ELSE 0)]
        \o [i \in 1..n |-> dI[i] + (IF given THEN imports.DI ELSE 0)]
        \o dR

\* the class of SEIR/seir.py returns the derivative as stated
SeirPyRhsAsStated ==
    op = "__call__" =>
        Len(out.res) = Len(out.Y) /\ out.res = StatedRhs(out.t, out.Y)

\* C23: for Y of length 4N in the blocks [S, E, I, R] the right-hand side
\* returns a vector of length 4N in the same blocks, dS = -(S / population) *
\* (effectiveMatrix . I), dE = -dS - E / incubation_period, dI = E /
\* incubation_period - I / infectious_period, dR = I / infectious_period, the
\* effective matrix being the infectivity matrix times the restrictions
\* function at t; the vectors of an imported-cases function are added to dS,
\* dE and dI.  Stated of the right-hand side of SEIR/seir.py and of
\* seir/model.py.
C23_RhsAsStated ==
    op = "__call__" =>
        /\ Len(out.res) = Len(out.Y) /\ out.res = StatedRhs(out.t, out.Y)
        /\ ~out.model_py.err /\ out.model_py.res = StatedRhs(out.t, out.Y)

\* C24: over any sequence of calls of the right-hand side, at times in any
\* order, self.infectivity_matrix keeps its value (only the scratch matrix is
\* written) and the derivative returned for (t, Y) is the one a new instance
\* returns for it.
C24_CanonicalMatrixKept ==
    [][ /\ self'.infectivity_matrix = self.infectivity_matrix
        /\ op' = "__call__" =>
              out'.res = Call([self' EXCEPT
                                  !.inf_matrix = AllocateInfMatrix(self'.infectivity_matrix)],
                              out'.t, out'.Y) ]_vars

\* after a call at a restricted time: the scratch matrix holds another value
\* than self.infectivity_matrix, and people are infected
C24_Witness ==
    /\ op = "__call__"
    /\ self.restrictions_function.kind # "None"
    /\ self.inf_matrix # self.infectivity_matrix
    /\ out.res[1] < 0

\* C25: the dense solution stored by simulate is changed only by a later
\* simulate: set_initial_state after simulate leaves the values the stored
\* solution returns for every query time, and the table evaluate_solution
\* returns, as they were.
C25_SolutionKeptBySetInitialState ==
    [][ (op' = "set_initial_state" /\ self.SEIR_solution.set) =>
            /\ \A time \in QueryArrays :
                  SEIRSolution(self', time) = SEIRSolution(self, time)
            /\ \A time \in EvaluationTimes :
                  EvaluateSolution(self', time, FALSE) = EvaluateSolution(self, time, FALSE)
      ]_vars

\* C26: for an array of query times that spans t0 the dense solution returns
\* one row per query time, in the order of the query times: row k is Y0 when
\* time[k] < t0 and the value of the integrator's solution at time[k] when
\* time[k] >= t0.
C26_RowsInQueryOrder ==
    (/\ op = "SEIR_solution" /\ ~err
     /\ \E k \in DOMAIN out.time : out.time[k] < self.SEIR_solution.t0
     /\ \E k \in DOMAIN out.time : out.time[k] >= self.SEIR_solution.t0) =>
        /\ Len(out.rows) = Len(out.time)
        /\ \A k \in DOMAIN out.time :
              out.rows[k] = IF out.time[k] < self.SEIR_solution.t0 THEN self.Y0
                            ELSE Sol(self.SEIR_solution, out.time[k])

\* C27: the infectivity matrix of a model of a single compartment has the
\* single entry R0 / infectious_period, for every positive population and
\* every positive contact value, and for the all-ones matrix used when the
\* contact matrix is omitted.
C27_SingleCompartmentEntry ==
    self.num_compartments = 1 =>
        self.infectivity_matrix = << <<Div(self.initial_R0, self.infectious_period[1])>> >>

\* a model of single compartments built with a contact value other than one
\* and with the smaller population
C27_Witness ==
    /\ op = "__init__" /\ ~err
    /\ self.num_compartments = 1
    /\ out.kwargs.contacts_matrix = << <<2 * One>> >>
    /\ out.kwargs.population = Number(4 * One)
    /\ self.infectivity_matrix[1][1] > 0


\* the restriction sections of the file the claim of agreement is about: a
\* float or a matrix definition as modifier
DefinedInline(section) == section.modifier.form \in {"float", "lines"}

\* C28 (as claimed): for every restriction section with a scalar modifier or a
\* matrix definition, and every time t, the function of
\* config_file_parser._parse_restriction_section returns the same value as the
\* function of restrictions_section_parser._parse_restriction_section: the
\* symmetric matrix whose entry (i,j) is the product of the factors of all
\* lines that cover the pair (inside the window; 1.0 outside).
C28_ParsersAgree ==
    (cfp.status # "unset" /\ rsp.status # "unset") =>
      \A k \in 1..Len(RestrictionSections(config)) :
         LET section == RestrictionSections(config)[k]
             byCfp == CfpParseRestrictionSection(section, AllCompartments)
             byRsp == ParseRestrictionSection(section, AllCompartments)
         IN  DefinedInline(section) =>
               /\ byCfp.ok /\ byRsp.ok
               /\ \A t \in QueryTimes :
                    /\ SameValue(RestrictionsFunction(byCfp.fun, t),
                                 RestrictionsFunction(byRsp.fun, t))
                    /\ SameValue(RestrictionsFunction(byRsp.fun, t),
                                 IF section.begins <= t /\ t <= section.ends
                                 THEN StatedModifier(section.modifier)
                                 ELSE Scalar(One))

\* a grid that is strictly increasing with constant step dt
UniformGrid(grid, dt) == \A k \in 1..(Len(grid) - 1) : grid[k + 1] = grid[k] + dt

\* the padded grid of a duration, as stated: uniform with the step of the query
\* times, every query time on it once, the window of round(duration / dt)
\* samples spanning the duration, the rows cut out being those of the query times
StatedPaddedGrid(time, duration) ==
    LET dt == time[2] - time[1]
        grid == PaddedTime(time, duration)
        first == Len(PaddedBeg(time, duration))
    IN  /\ UniformGrid(grid, dt)
        /\ \A r \in 1..Len(time) :
              Cardinality({k \in 1..Len(grid) : grid[k] = time[r]}) = 1
        /\ RoundHalfEven(duration, dt) * dt = duration
        /\ \A r \in 1..Len(time) : grid[first + r] = time[r]

\* C29 (as claimed): the padded time grid on which evaluate_solution computes
\* the hospitalization rate and the ICU rate is strictly increasing with
\* constant step dt and contains every query time exactly once, so the window
\* of round(duration / dt) samples covers exactly the duration at every query
\* time and the rows cut out of the padded result are those of the query times.
C29_PaddedGridUniform ==
    (op = "evaluate_solution" /\ ~err) =>
        /\ StatedPaddedGrid(out.time, self.hospitalization_duration)
        /\ StatedPaddedGrid(out.time, self.icu_duration)

\* the parts of C29 that hold of the code: the rows cut out are those of the
\* query times and the window has duration / dt samples
C29_RowsOfQueryTimes ==
    (op = "evaluate_solution" /\ ~err) =>
        \A duration \in {self.hospitalization_duration, self.icu_duration} :
            /\ RoundHalfEven(duration, out.time[2] - out.time[1])
                  * (out.time[2] - out.time[1]) = duration
            /\ \A r \in 1..Len(out.time) :
                  PaddedTime(out.time, duration)[Len(PaddedBeg(out.time, duration)) + r]
                      = out.time[r]

\* the value the file gives the key of [model]
ModelValue(file, key) ==
    file.model[CHOOSE k \in 1..Len(file.model) : file.model[k].key = key].value

\* the errors of the file, if any, are not in [initial state] or [simulation]
OtherSectionsTyped(file) ==
    /\ TypeItems("initial state", file.initial_state, << >>).ok
    /\ TypeItems("simulation", file.simulation, << >>).ok

\* C30 (as claimed): parse_config_ini accepts a [model] section whose
\* compartments key names a single compartment (a value without a comma) and
\* returns it as a one-element list of names, just as an absent compartments
\* key yields the default ['All'].
C30_SingleCompartmentAccepted ==
    (typed.status # "unset" /\ OtherSectionsTyped(ini)) =>
        IF HasKey(ini.model, "compartments")
        THEN ~HasComma(ModelValue(ini, "compartments")) =>
                /\ typed.status = "ok"
                /\ SameTyped(DictGet(typed.kwargs, "compartments"),
                             PyStrList(<< ModelValue(ini, "compartments") >>))
        ELSE /\ typed.status = "ok"
             /\ SameTyped(DictGet(typed.kwargs, "compartments"),
                          PyStrList(<< <<"A", "l", "l">> >>))

\* the part of C30 that holds of the code: an absent compartments key yields
\* ['All'], and a compartments value without a comma is read as a float, a
\* ValueError for a name
C30_SingleCompartmentIsValueError ==
    (typed.status # "unset" /\ OtherSectionsTyped(ini)) =>
        IF HasKey(ini.model, "compartments")
        THEN ~HasComma(ModelValue(ini, "compartments")) => typed.status = "error"
        ELSE /\ typed.status = "ok"
             /\ SameTyped(DictGet(typed.kwargs, "compartments"),
                          PyStrList(<< <<"A", "l", "l">> >>))
==========================================================================
